---- MODULE Spec2Model ----
(***************************************************************************)
(* Real-time interview assistant (backend/app): the three provider         *)
(* services (speech-to-text, translation, answer generation) with their    *)
(* primary/fallback invocation, and the WebSocket session pipeline of      *)
(* main.py that drives them.                                               *)
(*                                                                         *)
(* Conventions.  A text is a sequence of segments; a segment is either the *)
(* whitespace segment " " or a string with no leading/trailing whitespace. *)
(* Confidences are percentages (0.9 is 90).  processing_time and           *)
(* timestamps are wall-clock values and are left out of the records.       *)
(* Every provider call, every websocket send and every websocket receive   *)
(* is an await: the code between two awaits is one atomic step.            *)
(***************************************************************************)
EXTENDS Integers, Sequences, FiniteSets, TLC

VARIABLES
    providers,          \* [capability -> set of registered adapter names] (service.providers)
    settings,           \* the global settings object (the fields the pipeline reads)
    inv,                \* [task -> the service invocation the task is suspended in]
    active_connections, \* main.py: session id -> websocket (named by its handler) or NoConn
    active_sessions,    \* main.py: session id -> InterviewSession object (named by its creator) or NoConn
    session,            \* [handler -> the InterviewSession object that handler created]
    sock,               \* [handler -> state of its websocket: "new" | "open" | "closed"]
    sent,               \* [handler -> headers of the frames written to its websocket, in order]
    pc,                 \* [handler -> position of the websocket_endpoint coroutine]
    run,                \* [handler -> locals of its current/last process_audio_chunk call]
    received            \* number of inbound frames received so far (all handlers)

vars == <<providers, settings, inv, active_connections, active_sessions,
          session, sock, sent, pc, run, received>>

-----------------------------------------------------------------------------
(* Bounds of the model *)

\* inbound websocket frames received over the whole behaviour
MaxReceived == 2

\* websocket handlers (one per accepted connection) and caller-supplied ids
Conns == {"c1", "c2"}
SessionIds == {"s1", "s2"}
NoConn == "none"

\* the task of the synchronous endpoints (/transcribe, /translate, /generate-answer)
Http == "http"
Tasks == Conns \cup {Http}

Caps == {"stt", "translation", "ai"}

\* language codes that sessions, requests and adapters use
SourceLangs == {"auto", "en", "en-US"}
TargetLangs == {"en", "zh"}
DetectedLangs == {"en"}

Space == " "
\* transcripts an adapter may return
Texts == {<<>>, <<Space>>, <<"hi">>}

-----------------------------------------------------------------------------
(* Text helpers *)

RECURSIVE LStrip(_)
LStrip(t) == IF t # <<>> /\ Head(t) = Space THEN LStrip(Tail(t)) ELSE t

RECURSIVE RStrip(_)
RStrip(t) ==
    IF t # <<>> /\ t[Len(t)] = Space THEN RStrip(SubSeq(t, 1, Len(t) - 1)) ELSE t

\* a strip() that strips nothing
NoStrip(t) == t

\* str.strip()
Strip(t) == RStrip(LStrip(t))

\* dict.get(key, default)
Get(d, k, default) == IF k \in DOMAIN d THEN d[k] ELSE default

\* lang.split('-')[0], over the language codes of this model
BaseSubtag(lang) == IF lang = "en-US" THEN "en" ELSE lang

\* translation_service.is_translation_needed (main.py never calls it)
is_translation_needed(source_lang, target_lang) ==
    IF source_lang = target_lang THEN FALSE
    ELSE BaseSubtag(source_lang) # BaseSubtag(target_lang)

-----------------------------------------------------------------------------
(* Provider registries, built once at startup *)

\* What the environment offers: API keys in settings and importable libraries.
Envs ==
    [openai : BOOLEAN, google_speech : BOOLEAN, whisper : BOOLEAN,
     google_translate : BOOLEAN, deepl : BOOLEAN, googletrans : BOOLEAN,
     anthropic : BOOLEAN]

SttInitializeProviders(env) ==
    LET real == (IF env.openai THEN {"openai"} ELSE {})
                \cup (IF env.google_speech THEN {"google"} ELSE {})
                \cup (IF env.whisper THEN {"local"} ELSE {})
    IN  IF real = {} THEN {"mock"} ELSE real

\* a translation registry that always adds the mock adapter
TranslationInitializeProvidersWithMock(env) ==
    (IF env.google_translate THEN {"google"} ELSE {})
    \cup (IF env.deepl THEN {"deepl"} ELSE {})
    \cup (IF env.googletrans THEN {"google_free"} ELSE {})
    \cup {"mock"}

TranslationInitializeProviders(env) ==
    LET real == (IF env.google_translate THEN {"google"} ELSE {})
                \cup (IF env.deepl THEN {"deepl"} ELSE {})
                \cup (IF env.googletrans THEN {"google_free"} ELSE {})
    IN  IF real = {} THEN {"mock"} ELSE real

AiInitializeProviders(env) ==
    LET real == (IF env.openai THEN {"openai"} ELSE {})
                \cup (IF env.anthropic THEN {"anthropic"} ELSE {})
    IN  IF real = {} THEN {"mock"} ELSE real

InitializeProviders(env) ==
    [cap \in Caps |->
        CASE cap = "stt" -> SttInitializeProviders(env)
          [] cap = "translation" -> TranslationInitializeProviders(env)
          [] cap = "ai" -> AiInitializeProviders(env)]

\* adapter names a request may carry
ProviderNames(cap) ==
    CASE cap = "stt" -> {"openai", "google", "local", "mock", ""}
      [] cap = "translation" -> {"google", "deepl", "google_free", "mock", ""}
      [] cap = "ai" -> {"openai", "anthropic", "mock", ""}

-----------------------------------------------------------------------------
(* Fallback policy *)

FallbackOrderStt == <<"local", "openai", "google">>
\* the translation order read backwards
FallbackOrderTranslationReversed == <<"deepl", "google", "google_free">>

FallbackOrderTranslation == <<"google_free", "google", "deepl">>
FallbackOrderAi == <<"openai", "anthropic">>

FallbackOrder(cap) ==
    CASE cap = "stt" -> FallbackOrderStt
      [] cap = "translation" -> FallbackOrderTranslation
      [] cap = "ai" -> FallbackOrderAi

\* result.get('confidence', 0.9) of the primary path
PrimaryDefaultConfidence == 90
\* result.get('confidence', 0.8) of the fallback path
FallbackDefaultConfidence == 80

-----------------------------------------------------------------------------
(* Answer post-processing.  An answer is a sequence of one-character       *)
(* strings, so that words, offsets and the last character are computed.    *)

\* str.split(): the maximal runs of non-whitespace characters, in order
SplitWords(s) ==
    LET starts == {i \in 1..Len(s) : s[i] # Space /\ (i = 1 \/ s[i - 1] = Space)}
        ends == {i \in 1..Len(s) : s[i] # Space /\ (i = Len(s) \/ s[i + 1] = Space)}
        nth(S, k) == CHOOSE i \in S : Cardinality({j \in S : j < i}) = k - 1
    IN  [k \in 1..Cardinality(starts) |-> SubSeq(s, nth(starts, k), nth(ends, k))]

\* ' '.join(words)
RECURSIVE JoinWords(_)
JoinWords(ws) ==
    IF ws = <<>> THEN <<>>
    ELSE IF Len(ws) = 1 THEN Head(ws)
    ELSE Head(ws) \o <<Space>> \o JoinWords(Tail(ws))

\* str.rfind(ch): the last 0-based offset of ch, or -1
RFind(s, ch) ==
    LET hits == {i \in 1..Len(s) : s[i] = ch}
    IN  IF hits = {} THEN -1
        ELSE (CHOOSE i \in hits : \A j \in hits : j <= i) - 1

\* an endswith that knows the full stop only
EndsWithFullStop(s, suffixes) == s # <<>> /\ s[Len(s)] = "."

\* str.endswith(tuple of one-character suffixes)
EndsWith(s, suffixes) == s # <<>> /\ s[Len(s)] \in suffixes

PostProcessAnswer(answer, max_length) ==
    LET a1 == JoinWords(SplitWords(answer))
        cut == JoinWords(SubSeq(SplitWords(a1), 1, max_length))
        last_period == RFind(cut, ".")
        a2 == IF Len(SplitWords(a1)) > max_length
              THEN IF ~EndsWith(cut, {"."}) /\ last_period * 10 > Len(cut) * 7
                   THEN SubSeq(cut, 1, last_period + 1)
                   ELSE cut
              ELSE a1
        a3 == IF ~EndsWith(a2, {".", "!", "?"}) THEN a2 \o <<".">> ELSE a2
    IN  Strip(a3)

-----------------------------------------------------------------------------
(* Provider adapters: the result dicts a successful call may return.  A    *)
(* call may also raise (network, vendor rejection): see the actions.       *)

\* confidences Google Speech-to-Text may report for an alternative
GoogleSttConfidences == {70, 97}
\* what a real translator may return for a text
TranslatedTexts == {<<"ni hao">>}
\* what a real model may answer (after .strip())
RawAnswers == {<<"y", "e", "s", ".", " ", " ", "n", "o">>}

OpenAISTTProviderTranscribe(req) ==
    {[text |-> t, confidence |-> 90, language |-> l] : t \in Texts, l \in DetectedLangs}

GoogleSTTProviderTranscribe(req) ==
    {[text |-> <<>>, confidence |-> 0, language |-> req.language]}
    \cup {[text |-> t, confidence |-> c, language |-> req.language] :
            t \in Texts, c \in GoogleSttConfidences}

LocalWhisperProviderTranscribe(req) ==
    {[text |-> t, confidence |-> 85, language |-> l] : t \in Texts, l \in DetectedLangs}

MockTranscription == <<"This is a mock transcription for testing purposes.">>

MockSTTProviderTranscribe(req) ==
    {[text |-> MockTranscription, confidence |-> 95,
      language |-> IF req.language # "auto" THEN req.language ELSE "en"]}

GoogleTranslateProviderTranslate(req) ==
    {[translated_text |-> t, source_language |-> l, confidence |-> 95] :
        t \in TranslatedTexts,
        l \in IF req.source_language = "auto" THEN DetectedLangs
              ELSE {req.source_language}}

DeepLProviderTranslate(req) ==
    {[translated_text |-> t, source_language |-> req.source_language,
      confidence |-> 92] : t \in TranslatedTexts}

GoogleTranslateFreeProviderTranslate(req) ==
    {[translated_text |-> t, source_language |-> l, confidence |-> 85] :
        t \in TranslatedTexts,
        l \in IF req.source_language = "auto" THEN DetectedLangs
              ELSE {req.source_language}}

\* the source's prefix for 'zh' is the bracketed Chinese for "Chinese translation"
MockPrefixZh == <<"[zh translation]", Space>>
MockPrefixEn == <<"[English Translation]", Space>>
\* f"[{target.upper()} Translation] ": targets other than zh/en do not occur here
MockPrefixOther == <<"[?? Translation]", Space>>

MockTranslationProviderTranslate(req) ==
    {[translated_text |->
          (IF req.target_language = "zh" THEN MockPrefixZh
           ELSE IF req.target_language = "en" THEN MockPrefixEn
           ELSE MockPrefixOther) \o req.text,
      source_language |-> req.source_language,
      confidence |-> 90]}

OpenAIProviderGenerate(req) ==
    {[answer |-> a, confidence |-> 90] : a \in RawAnswers}

AnthropicProviderGenerate(req) ==
    {[answer |-> a, confidence |-> 90] : a \in RawAnswers}

\* The canned answer is picked by phrases of the question; the questions of
\* this model contain none of them, which leaves the final else branch.
MockDefaultAnswer ==
    <<"T","h","a","t","'","s"," ","a","n"," ","e","x","c","e","l","l","e","n",
      "t"," ","q","u","e","s","t","i","o","n","."," ","B","a","s","e","d"," ",
      "o","n"," ","m","y"," ","e","x","p","e","r","i","e","n","c","e"," ","a",
      "n","d"," ","u","n","d","e","r","s","t","a","n","d","i","n","g"," ","o",
      "f"," ","t","h","e"," ","r","o","l","e",","," ","I"," ","b","e","l","i",
      "e","v","e"," ","t","h","e"," ","k","e","y"," ","i","s"," ","t","o"," ",
      "a","p","p","r","o","a","c","h"," ","c","h","a","l","l","e","n","g","e",
      "s"," ","s","y","s","t","e","m","a","t","i","c","a","l","l","y"," ","w",
      "h","i","l","e"," ","m","a","i","n","t","a","i","n","i","n","g"," ","c",
      "l","e","a","r"," ","c","o","m","m","u","n","i","c","a","t","i","o","n",
      " ","w","i","t","h"," ","s","t","a","k","e","h","o","l","d","e","r","s",
      ".">>

MockAIProviderGenerate(req) ==
    {[answer |-> MockDefaultAnswer, confidence |-> 85]}

AdapterResults(cap, name, req) ==
    CASE cap = "stt" /\ name = "openai" -> OpenAISTTProviderTranscribe(req)
      [] cap = "stt" /\ name = "google" -> GoogleSTTProviderTranscribe(req)
      [] cap = "stt" /\ name = "local" -> LocalWhisperProviderTranscribe(req)
      [] cap = "stt" /\ name = "mock" -> MockSTTProviderTranscribe(req)
      [] cap = "translation" /\ name = "google" -> GoogleTranslateProviderTranslate(req)
      [] cap = "translation" /\ name = "deepl" -> DeepLProviderTranslate(req)
      [] cap = "translation" /\ name = "google_free" -> GoogleTranslateFreeProviderTranslate(req)
      [] cap = "translation" /\ name = "mock" -> MockTranslationProviderTranslate(req)
      [] cap = "ai" /\ name = "openai" -> OpenAIProviderGenerate(req)
      [] cap = "ai" /\ name = "anthropic" -> AnthropicProviderGenerate(req)
      [] cap = "ai" /\ name = "mock" -> MockAIProviderGenerate(req)

-----------------------------------------------------------------------------
(* A service invocation: transcribe / translate / generate_answer and      *)
(* their _try_fallback.  The three services share one shape; cap selects   *)
(* the registry, the fallback order and the response model.                *)
(*   status: "idle" | "primary" (awaiting the primary adapter) |           *)
(*           "fallback" (awaiting fallback_order[i]) | "ok" |              *)
(*           "config_error" (ValueError) | "all_failed" (Exception)        *)
(*   req:    the request object; _try_fallback assigns req.provider        *)
(*   primary, calls: history (the provider first requested; the adapter    *)
(*           calls made so far with their outcome)                         *)

NoReq == [provider |-> ""]
NoResp == [provider |-> ""]

IdleInv ==
    [cap |-> "none", status |-> "idle", req |-> NoReq, primary |-> "",
     i |-> 0, calls |-> <<>>, resp |-> NoResp]

TranscriptionResponse(req, result, provider, default) ==
    [text |-> result.text,
     confidence |-> Get(result, "confidence", default),
     language |-> Get(result, "language", req.language),
     provider |-> provider]

TranslationResponse(req, result, provider, default) ==
    [original_text |-> req.text,
     translated_text |-> result.translated_text,
     source_language |-> Get(result, "source_language", req.source_language),
     target_language |-> req.target_language,
     confidence |-> Get(result, "confidence", default),
     provider |-> provider]

\* metadata: the primary path records style, language and the two lengths;
\* the fallback path records {'fallback': True, 'style': ...}
AnswerGenerationResponse(req, result, provider, default, isFallback) ==
    LET processed == PostProcessAnswer(result.answer, req.max_length)
    IN  [question |-> req.question,
         answer |-> processed,
         confidence |-> Get(result, "confidence", default),
         provider |-> provider,
         metadata |-> IF isFallback
                      THEN [fallback |-> TRUE, style |-> req.style]
                      ELSE [style |-> req.style, language |-> req.language,
                            original_length |-> Len(result.answer),
                            processed_length |-> Len(processed)]]

Response(cap, req, result, provider, default, isFallback) ==
    CASE cap = "stt" -> TranscriptionResponse(req, result, provider, default)
      [] cap = "translation" -> TranslationResponse(req, result, provider, default)
      [] cap = "ai" -> AnswerGenerationResponse(req, result, provider, default, isFallback)

\* The for loop of _try_fallback from position `from` of fallback_order up
\* to its next await: skip names equal to request.provider or unregistered,
\* assign request.provider and call the first one left; raise when none is.
RECURSIVE TryFallback(_, _)
TryFallback(v, from) ==
    LET order == FallbackOrder(v.cap)
    IN  IF from > Len(order)
        THEN [v EXCEPT !.status = "all_failed"]
        ELSE IF order[from] = v.req.provider \/ order[from] \notin providers[v.cap]
        THEN TryFallback(v, from + 1)
        ELSE [v EXCEPT !.status = "fallback", !.i = from,
                       !.req = [v.req EXCEPT !.provider = order[from]]]

\* an entry whose missing-provider error is caught like an adapter failure
ServiceCallFallsBack(cap, req) ==
    IF req.provider \notin providers[cap]
    THEN TryFallback([IdleInv EXCEPT !.cap = cap, !.req = req, !.primary = req.provider], 1)
    ELSE [IdleInv EXCEPT !.cap = cap, !.status = "primary", !.req = req,
                         !.primary = req.provider]

\* The entry of transcribe / translate / generate_answer up to its first
\* await: look the requested provider up, raise ValueError if it is missing.
ServiceCall(cap, req) ==
    IF req.provider \notin providers[cap]
    THEN [IdleInv EXCEPT !.cap = cap, !.status = "config_error", !.req = req,
                         !.primary = req.provider]
    ELSE [IdleInv EXCEPT !.cap = cap, !.status = "primary", !.req = req,
                         !.primary = req.provider]

Transcribe(req) == ServiceCall("stt", req)
Translate(req) == ServiceCall("translation", req)
GenerateAnswer(req) == ServiceCall("ai", req)

\* a primary path whose result is discarded for the fallback path
AfterPrimaryThenFallback(v, ok, result) ==
    TryFallback([v EXCEPT !.calls = Append(v.calls, [name |-> v.req.provider,
                                                     ok |-> ok])], 1)

\* The primary adapter's call returns (ok, with result) or raises (~ok).
AfterPrimary(v, ok, result) ==
    LET w == [v EXCEPT !.calls = Append(v.calls, [name |-> v.req.provider, ok |-> ok])]
    IN  IF ok
        THEN [w EXCEPT !.status = "ok",
                       !.resp = Response(v.cap, v.req, result, v.req.provider,
                                         PrimaryDefaultConfidence, FALSE)]
        ELSE TryFallback(w, 1)

\* The fallback adapter fallback_order[i] returns or raises.
AfterFallback(v, ok, result) ==
    LET name == FallbackOrder(v.cap)[v.i]
        w == [v EXCEPT !.calls = Append(v.calls, [name |-> name, ok |-> ok])]
    IN  IF ok
        THEN [w EXCEPT !.status = "ok",
                       !.resp = Response(v.cap, v.req, result, name,
                                         FallbackDefaultConfidence, TRUE)]
        ELSE TryFallback(w, v.i + 1)

Awaiting(v) == v.status \in {"primary", "fallback"}

\* the adapter a suspended invocation is waiting for
Callee(v) == IF v.status = "primary" THEN v.req.provider ELSE FallbackOrder(v.cap)[v.i]

AfterAdapter(v, ok, result) ==
    IF v.status = "primary" THEN AfterPrimary(v, ok, result)
    ELSE AfterFallback(v, ok, result)

\* every way the awaited adapter call can end: it returns one of its
\* results, or it raises (the mock adapters sleep and return, they never raise)
AdapterOutcomes(v) ==
    {AfterAdapter(v, TRUE, r) : r \in AdapterResults(v.cap, Callee(v), v.req)}
    \cup (IF Callee(v) = "mock" THEN {} ELSE {AfterAdapter(v, FALSE, NoResp)})

-----------------------------------------------------------------------------
(* Settings and the state right after startup_event *)

\* Settings.answer_max_length
AnswerMaxLength == 150

DefaultSettings ==
    [stt_provider |-> "openai", translation_provider |-> "google",
     default_source_language |-> "auto", default_target_language |-> "en",
     answer_style |-> "professional", answer_max_length |-> AnswerMaxLength]

\* created, ignored, pings and chunks are history: the providers and the
\* answer style that settings held when the session was created, the number
\* of inbound frames of unknown type the handler has logged, the number of
\* ping frames it has handled and the audio_data of the audio_chunk frames
\* it has handled
NoSession ==
    [source_language |-> "", target_language |-> "", sid |-> NoConn,
     created |-> [stt_provider |-> "", translation_provider |-> "",
                  answer_style |-> ""],
     ignored |-> 0, pings |-> 0, chunks |-> <<>>]
\* A run of process_audio_chunk.
\*   its locals: session (the object it fetched, named by its creator),
\*     transcription, question; sending is the frame whose send it awaits
\*     and call the service call that just ended (with the adapter calls made)
\*   its history: k numbers the runs of the handler; invoked lists the
\*     service calls that ended (capability and outcome); frames lists the
\*     frames handed to send_message (header, and the websocket written to)
NoFrame == [type |-> "none"]
NoCall == [cap |-> "none", status |-> "none", primary |-> "", calls |-> <<>>]
NoRun == [k |-> 0, session |-> NoConn, transcription |-> NoResp,
          question |-> <<>>, sending |-> NoFrame, call |-> NoCall,
          invoked |-> <<>>, frames |-> <<>>]

\* no connection has been accepted yet
NoConnections ==
    /\ active_connections = [s \in SessionIds |-> NoConn]
    /\ active_sessions = [s \in SessionIds |-> NoConn]
    /\ session = [c \in Conns |-> NoSession]
    /\ sock = [c \in Conns |-> "new"]
    /\ sent = [c \in Conns |-> <<>>]
    /\ pc = [c \in Conns |-> "new"]
    /\ run = [c \in Conns |-> NoRun]
    /\ received = 0

websocketVars == <<active_connections, active_sessions, session, sock, sent,
                   pc, run, received>>

-----------------------------------------------------------------------------
(* The synchronous endpoints /transcribe, /translate, /generate-answer:    *)
(* one service call each, with whatever provider the request names.        *)

HttpLanguages == {"auto", "en"}
HttpMaxLengths == {1, AnswerMaxLength}

TranscriptionRequests ==
    [audio_data : {"AAAA"}, language : HttpLanguages, provider : ProviderNames("stt")]

TranslationRequests ==
    [text : {<<"hi">>}, source_language : HttpLanguages, target_language : TargetLangs,
     provider : ProviderNames("translation")]

AnswerGenerationRequests ==
    [question : {<<"hi">>}, style : {"professional"}, max_length : HttpMaxLengths,
     language : {"en"}, provider : ProviderNames("ai")]

transcribe_audio ==
    /\ inv[Http].status = "idle"
    /\ \E req \in TranscriptionRequests : inv' = [inv EXCEPT ![Http] = Transcribe(req)]
    /\ UNCHANGED <<providers, settings, websocketVars>>

translate_text ==
    /\ inv[Http].status = "idle"
    /\ \E req \in TranslationRequests : inv' = [inv EXCEPT ![Http] = Translate(req)]
    /\ UNCHANGED <<providers, settings, websocketVars>>

generate_answer ==
    /\ inv[Http].status = "idle"
    /\ \E req \in AnswerGenerationRequests :
          inv' = [inv EXCEPT ![Http] = GenerateAnswer(req)]
    /\ UNCHANGED <<providers, settings, websocketVars>>

\* the adapter the endpoint's service call awaits returns or raises
HttpAdapterReturns ==
    /\ Awaiting(inv[Http])
    /\ \E w \in AdapterOutcomes(inv[Http]) : inv' = [inv EXCEPT ![Http] = w]
    /\ UNCHANGED <<providers, settings, websocketVars>>

\* What the endpoint answers for the service call v.  The services are set
\* by startup_event before any request is served, so `if not <service>` is
\* false; the result is returned (200), and any exception of the call is
\* caught by `except Exception` and raised again as HTTPException(500).
\* `of` is history: the service call that was answered.
HttpResponse(v) ==
    [status_code |-> IF v.status = "ok" THEN 200 ELSE 500,
     of |-> [cap |-> v.cap, status |-> v.status, calls |-> v.calls]]

\* the endpoint returns the response, or HTTP 500 for a raised exception
HttpResponds ==
    /\ inv[Http].status \in {"ok", "config_error", "all_failed"}
    /\ inv' = [inv EXCEPT ![Http] = [IdleInv EXCEPT !.resp = HttpResponse(inv[Http])]]
    /\ UNCHANGED <<providers, settings, websocketVars>>

\* a health test that counts real adapters only
ServiceHealthOfRealAdapters(registry) ==
    IF registry \ {"mock"} # {} THEN "healthy" ELSE "unhealthy"

\* `if <service> and <service>.providers:` (the service objects are set by
\* startup_event, a dict is true when it is not empty)
ServiceHealth(registry) == IF registry # {} THEN "healthy" ELSE "unhealthy"

\* the name health_check reports a capability under
HealthName(cap) ==
    CASE cap = "stt" -> "speech_to_text"
      [] cap = "translation" -> "translation"
      [] cap = "ai" -> "ai_generation"

\* the HealthCheck model that GET /health returns; audio_service is set by
\* startup_event too
HealthCheck(registries) ==
    LET services_status ==
            [speech_to_text |-> ServiceHealth(registries["stt"]),
             translation |-> ServiceHealth(registries["translation"]),
             ai_generation |-> ServiceHealth(registries["ai"]),
             audio_capture |-> "healthy"]
    IN  [status |-> IF \A n \in DOMAIN services_status : services_status[n] = "healthy"
                    THEN "healthy" ELSE "degraded",
         services |-> services_status]

health_check ==
    /\ inv[Http].status = "idle"
    /\ inv' = [inv EXCEPT ![Http] = [IdleInv EXCEPT !.resp = HealthCheck(providers)]]
    /\ UNCHANGED <<providers, settings, websocketVars>>

InvokeInit ==
    /\ providers \in {InitializeProviders(env) : env \in Envs}
    /\ settings = DefaultSettings
    /\ inv = [t \in Tasks |-> IdleInv]
    /\ NoConnections

InvokeNext ==
    \/ transcribe_audio
    \/ translate_text
    \/ generate_answer
    \/ HttpAdapterReturns
    \/ HttpResponds
    \/ health_check

InvokeSpec == InvokeInit /\ [][InvokeNext]_vars

-----------------------------------------------------------------------------
(* The WebSocket endpoint /ws/{session_id} and the pipeline it drives.     *)
(* A handler c is one websocket_endpoint coroutine; session[c].sid is its  *)
(* session_id parameter.  pc[c]:                                           *)
(*   "new"                 not yet accepted                                *)
(*   "recv"                awaiting websocket.receive_text()               *)
(*   "stt" | "translation" | "ai"                                          *)
(*                         process_audio_chunk awaits an adapter of that   *)
(*                         service (inv[c] tells which)                    *)
(*   "sent_transcription" | "sent_translation" | "sent_final"              *)
(*                         awaiting the send of that frame (final: the     *)
(*                         answer frame or the error frame)                *)
(*   "hung"                process_audio_chunk awaits an adapter call that *)
(*                         never returns                                   *)
(*   "ws_error"            an exception left the receive loop: awaiting    *)
(*                         the send of the "WebSocket error" frame         *)
(*   "closed"              the coroutine has ended                         *)

\* audio_data of an audio_chunk frame ("" stands for a missing or empty one)
AudioData == {"", "AAAA"}

\* data of a config_update frame
ConfigUpdates ==
    {[source_language |-> "en"],
     [source_language |-> "en", target_language |-> "zh"]}

\* `by` is history: the handler and run that produced the frame (run 0:
\* outside any pipeline run)
RealTimeMessage(type, sid, data, by) ==
    [type |-> type, session_id |-> sid, data |-> data, by |-> by]

\* the websocket send_message would write to under conns/socks, or NoConn
\* when the session id is not in active_connections or send_text raises
Receiver(conns, socks, sid) ==
    IF conns[sid] # NoConn /\ socks[conns[sid]] = "open" THEN conns[sid] ELSE NoConn

\* what the log of a websocket keeps of a frame written to it; the whole
\* frame of a pipeline run is in run[..].frames of the run that produced it
\* (of a config_updated frame also the data, and the config it answers; of
\* a status frame also the data)
Header(frame) ==
    IF "re" \in DOMAIN frame
    THEN [type |-> frame.type, session_id |-> frame.session_id, by |-> frame.by,
          data |-> frame.data, re |-> frame.re]
    ELSE IF frame.type = "status"
    THEN [type |-> frame.type, session_id |-> frame.session_id, by |-> frame.by,
          data |-> frame.data]
    ELSE [type |-> frame.type, session_id |-> frame.session_id, by |-> frame.by]

\* send_message: the websocket logs after it
send_message(conns, socks, sid, frame) ==
    IF Receiver(conns, socks, sid) = NoConn THEN sent
    ELSE [sent EXCEPT ![Receiver(conns, socks, sid)] = Append(@, Header(frame))]

\* a process_audio_chunk step of handler c: what it leaves in pc[c], inv[c],
\* run[c] and sent
Emit(c, r, type, data) ==
    LET sid == session[c].sid
        frame == RealTimeMessage(type, sid, data, <<c, r.k>>)
    IN  [sent |-> send_message(active_connections, sock, sid, frame),
         run |-> [r EXCEPT !.sending = frame,
                           !.frames =
                     Append(@, [frame |-> Header(frame),
                                to |-> Receiver(active_connections, sock, sid)])]]

\* send_error(session_id, error, message)
send_error(c, r, error, message) ==
    Emit(c, r, "error", [error |-> error, message |-> message])

\* an except block that reports the error and lets the run go on to answer
\* generation
PipelineErrorThenAnswer(c, r, message) ==
    LET e == Emit(c, r, "error", [error |-> "Pipeline error", message |-> message])
    IN  [pc |-> "sent_translation", inv |-> IdleInv, run |-> e.run, sent |-> e.sent]

\* except Exception as e: send_error(session_id, "Pipeline error", str(e))
PipelineError(c, r, message) ==
    LET e == send_error(c, r, "Pipeline error", message)
    IN  [pc |-> "sent_final", inv |-> IdleInv, run |-> e.run, sent |-> e.sent]

\* the service call v has ended: keep it as the run's latest call
Ended(r, v) ==
    [r EXCEPT !.call = [cap |-> v.cap, status |-> v.status, primary |-> v.primary,
                        calls |-> v.calls],
              !.invoked = Append(@, [cap |-> v.cap, status |-> v.status])]

\* process_audio_chunk returns to the receive loop: its locals are gone,
\* its history stays
Returned(r) == [NoRun EXCEPT !.k = r.k, !.invoked = r.invoked, !.frames = r.frames]

\* a return that ends the endpoint coroutine instead of resuming its loop
ReturnEndsHandler(c, r) ==
    [pc |-> "closed", inv |-> IdleInv, run |-> Returned(r), sent |-> sent]

Return(c, r) == [pc |-> "recv", inv |-> IdleInv, run |-> Returned(r), sent |-> sent]

ProviderNotAvailable(name) == "Provider " \o name \o " not available"

AllProvidersFailed(cap) ==
    CASE cap = "stt" -> "All STT providers failed"
      [] cap = "translation" -> "All translation providers failed"
      [] cap = "ai" -> "All AI providers failed"

\* a service call v was just made for the stage: it raised ValueError, or
\* the coroutine now awaits its primary adapter
StartStage(c, r, v, stage) ==
    IF v.status = "config_error"
    THEN PipelineError(c, Ended(r, v), ProviderNotAvailable(v.primary))
    ELSE [pc |-> stage, inv |-> v, run |-> [r EXCEPT !.sending = NoFrame], sent |-> sent]

\* a Step 3 that always asks with the transcribed text
StartAnswerWithTranscription(c, r, question_text) ==
    StartStage(c, [r EXCEPT !.question = r.transcription.text],
               GenerateAnswer([question |-> r.transcription.text,
                               style |-> settings.answer_style,
                               max_length |-> settings.answer_max_length,
                               language |-> session[r.session].target_language,
                               provider |-> "openai"]),
               "ai")

\* Step 3: answer generation
StartAnswer(c, r, question_text) ==
    StartStage(c, [r EXCEPT !.question = question_text],
               GenerateAnswer([question |-> question_text,
                               style |-> settings.answer_style,
                               max_length |-> settings.answer_max_length,
                               language |-> session[r.session].target_language,
                               provider |-> "openai"]),
               "ai")

\* after the transcription frame: the empty-text return, Step 2 or Step 3
AfterTranscription(c, r) ==
    IF Strip(r.transcription.text) = <<>>
    THEN Return(c, r)
    ELSE IF session[r.session].source_language # session[r.session].target_language
    THEN StartStage(c, r,
                    Translate([text |-> r.transcription.text,
                               source_language |-> r.transcription.language,
                               target_language |-> session[r.session].target_language,
                               provider |-> settings.translation_provider]),
                    "translation")
    ELSE StartAnswer(c, r, r.transcription.text)

\* the service call of the stage ended in w: a response or "all failed"
StageEnded(c, r, w) ==
    LET r1 == Ended(r, w)
    IN  IF w.status = "all_failed"
        THEN PipelineError(c, r1, AllProvidersFailed(w.cap))
        ELSE IF w.cap = "stt"
        THEN LET e == Emit(c, [r1 EXCEPT !.transcription = w.resp], "transcription",
                           [text |-> w.resp.text,
                            confidence |-> w.resp.confidence,
                            language |-> w.resp.language])
             IN  [pc |-> "sent_transcription", inv |-> IdleInv, run |-> e.run,
                  sent |-> e.sent]
        ELSE IF w.cap = "translation"
        THEN LET e == Emit(c, [r1 EXCEPT !.question = w.resp.translated_text],
                           "translation",
                           [original_text |-> w.resp.original_text,
                            translated_text |-> w.resp.translated_text,
                            source_language |-> w.resp.source_language,
                            target_language |-> w.resp.target_language,
                            confidence |-> w.resp.confidence])
             IN  [pc |-> "sent_translation", inv |-> IdleInv, run |-> e.run,
                  sent |-> e.sent]
        ELSE LET e == Emit(c, r1, "answer",
                           [question |-> w.resp.question,
                            answer |-> w.resp.answer,
                            confidence |-> w.resp.confidence,
                            style |-> settings.answer_style])
             IN  [pc |-> "sent_final", inv |-> IdleInv, run |-> e.run, sent |-> e.sent]

\* handler c takes the step n
Becomes(c, n) ==
    /\ pc' = [pc EXCEPT ![c] = n.pc]
    /\ inv' = [inv EXCEPT ![c] = n.inv]
    /\ run' = [run EXCEPT ![c] = n.run]
    /\ sent' = n.sent

\* an accept that registers the connection and sends nothing
ConnectWithoutStatus(c, sid) ==
    /\ pc[c] = "new"
    /\ sock' = [sock EXCEPT ![c] = "open"]
    /\ active_connections' = [active_connections EXCEPT ![sid] = c]
    /\ session' = [session EXCEPT ![c] =
                      [source_language |-> settings.default_source_language,
                       target_language |-> settings.default_target_language,
                       sid |-> sid,
                       created |->
                           [stt_provider |-> settings.stt_provider,
                            translation_provider |-> settings.translation_provider,
                            answer_style |-> settings.answer_style],
                       ignored |-> 0, pings |-> 0, chunks |-> <<>>]]
    /\ active_sessions' = [active_sessions EXCEPT ![sid] = c]
    /\ sent' = sent
    /\ pc' = [pc EXCEPT ![c] = "recv"]
    /\ UNCHANGED <<providers, settings, inv, run, received>>

\* websocket_endpoint up to its first receive: accept, register the
\* connection and a new session under session_id, send the status frame
Connect(c, sid) ==
    /\ pc[c] = "new"
    /\ sock' = [sock EXCEPT ![c] = "open"]
    /\ active_connections' = [active_connections EXCEPT ![sid] = c]
    /\ session' = [session EXCEPT ![c] =
                      [source_language |-> settings.default_source_language,
                       target_language |-> settings.default_target_language,
                       sid |-> sid,
                       created |->
                           [stt_provider |-> settings.stt_provider,
                            translation_provider |-> settings.translation_provider,
                            answer_style |-> settings.answer_style],
                       ignored |-> 0, pings |-> 0, chunks |-> <<>>]]
    /\ active_sessions' = [active_sessions EXCEPT ![sid] = c]
    /\ sent' = send_message(active_connections', sock', sid,
                   RealTimeMessage("status", sid,
                       [message |-> "Connected to Real-Time Interview Assistant",
                        session_id |-> sid,
                        capabilities |-> <<"transcription", "translation",
                                           "answer_generation">>],
                       <<c, 0>>))
    /\ pc' = [pc EXCEPT ![c] = "recv"]
    /\ UNCHANGED <<providers, settings, inv, run, received>>

\* the peer closes the websocket of handler c (or the network drops it)
ClientClose(c) ==
    /\ sock[c] = "open"
    /\ sock' = [sock EXCEPT ![c] = "closed"]
    /\ UNCHANGED <<providers, settings, inv, active_connections, active_sessions,
                   session, sent, pc, run, received>>

\* inbound texts that are not a JSON object: json.loads raises on the
\* first, message.get raises on the second
MalformedTexts == {"{not json", "[1]"}

\* str(e) of the exception the text raises
MalformedError(text) ==
    IF text = "[1]" THEN "'list' object has no attribute 'get'"
    ELSE "Expecting property name enclosed in double quotes"

\* a text that is not a JSON object arrives: the exception leaves the
\* while loop, except Exception sends the "WebSocket error" frame
ReceiveMalformed(c) ==
    /\ pc[c] = "recv"
    /\ sock[c] = "open"
    /\ received < MaxReceived
    /\ received' = received + 1
    /\ \E text \in MalformedTexts :
          sent' = send_message(active_connections, sock, session[c].sid,
                      RealTimeMessage("error", session[c].sid,
                          [error |-> "WebSocket error",
                           message |-> MalformedError(text)],
                          <<c, 0>>))
    /\ pc' = [pc EXCEPT ![c] = "ws_error"]
    /\ UNCHANGED <<providers, settings, inv, active_connections, active_sessions,
                   session, sock, run>>

\* an Optional field that was left out, a key that is missing
None == "None"

\* a ping branch that sends nothing
ReceivePingUnanswered(c) ==
    /\ pc[c] = "recv"
    /\ sock[c] = "open"
    /\ received < MaxReceived
    /\ received' = received + 1
    /\ session' = [session EXCEPT ![c].pings = @ + 1]
    /\ UNCHANGED <<providers, settings, inv, active_connections, active_sessions,
                   sent, sock, pc, run>>

\* a ping frame arrives: the pong frame is sent
ReceivePing(c) ==
    /\ pc[c] = "recv"
    /\ sock[c] = "open"
    /\ received < MaxReceived
    /\ received' = received + 1
    /\ sent' = send_message(active_connections, sock, session[c].sid,
                   RealTimeMessage("pong", session[c].sid, [timestamp |-> "now"],
                                   <<c, 0>>))
    /\ session' = [session EXCEPT ![c].pings = @ + 1]
    /\ UNCHANGED <<providers, settings, inv, active_connections, active_sessions,
                   sock, pc, run>>

\* message.get("type") of a frame that is none of audio_chunk, config_update
\* and ping (None: the frame has no type)
UnknownTypes == {"hello", None}

\* an else branch that reports the unknown type to the client
ReceiveUnknownAnswersError(c) ==
    /\ pc[c] = "recv"
    /\ sock[c] = "open"
    /\ received < MaxReceived
    /\ received' = received + 1
    /\ \E type \in UnknownTypes :
          sent' = send_message(active_connections, sock, session[c].sid,
                      RealTimeMessage("error", session[c].sid,
                          [error |-> "Error processing", message |-> type],
                          <<c, 0>>))
    /\ session' = [session EXCEPT ![c].ignored = @ + 1]
    /\ UNCHANGED <<providers, settings, inv, active_connections, active_sessions,
                   sock, pc, run>>

\* a frame of unknown type arrives: the else branch logs a warning
ReceiveUnknown(c) ==
    /\ pc[c] = "recv"
    /\ sock[c] = "open"
    /\ received < MaxReceived
    /\ received' = received + 1
    /\ \E type \in UnknownTypes :
          session' = [session EXCEPT ![c].ignored = @ + 1]
    /\ UNCHANGED <<providers, settings, inv, active_connections, active_sessions,
                   sock, sent, pc, run>>

\* a finally block that empties both maps
DisconnectClearsAll(c) ==
    /\ \/ pc[c] = "recv" /\ sock[c] = "closed"
       \/ pc[c] = "ws_error"
    /\ sock' = [sock EXCEPT ![c] = "closed"]
    /\ active_connections' = [s \in SessionIds |-> NoConn]
    /\ active_sessions' = [s \in SessionIds |-> NoConn]
    /\ pc' = [pc EXCEPT ![c] = "closed"]
    /\ UNCHANGED <<providers, settings, inv, session, sent, run, received>>

\* the receive loop is left (receive_text raised WebSocketDisconnect, or
\* the error frame of another exception was sent): the finally block
\* deletes the entries under session_id, the coroutine ends and with it
\* the websocket
Disconnect(c) ==
    /\ \/ pc[c] = "recv" /\ sock[c] = "closed"
       \/ pc[c] = "ws_error"
    /\ sock' = [sock EXCEPT ![c] = "closed"]
    /\ active_connections' = [active_connections EXCEPT ![session[c].sid] = NoConn]
    /\ active_sessions' = [active_sessions EXCEPT ![session[c].sid] = NoConn]
    /\ pc' = [pc EXCEPT ![c] = "closed"]
    /\ UNCHANGED <<providers, settings, inv, session, sent, run, received>>

\* a receive loop that starts a run only while no other handler is in one
ReceiveAudioChunkOneAtATime(c) ==
    /\ \A d \in Conns \ {c} :
          pc[d] \notin {"stt", "translation", "ai", "sent_transcription",
                        "sent_translation", "sent_final"}
    /\ pc[c] = "recv"
    /\ sock[c] = "open"
    /\ received < MaxReceived
    /\ received' = received + 1
    /\ \E audio_data \in AudioData :
          LET s == active_sessions[session[c].sid]
          IN  /\ session' = [session EXCEPT ![c].chunks = Append(@, audio_data)]
              /\ IF s = NoConn \/ audio_data = ""
                 THEN UNCHANGED <<pc, inv, run, sent>>
                 ELSE Becomes(c,
                        StartStage(c, [NoRun EXCEPT !.k = run[c].k + 1, !.session = s],
                                   Transcribe([audio_data |-> audio_data,
                                               language |-> session[s].source_language,
                                               provider |-> settings.stt_provider]),
                                   "stt"))
    /\ UNCHANGED <<providers, settings, active_connections, active_sessions, sock>>

\* a process_audio_chunk that does not look at audio_data
ReceiveAudioChunkUnchecked(c) ==
    /\ pc[c] = "recv"
    /\ sock[c] = "open"
    /\ received < MaxReceived
    /\ received' = received + 1
    /\ \E audio_data \in AudioData :
          LET s == active_sessions[session[c].sid]
          IN  /\ session' = [session EXCEPT ![c].chunks = Append(@, audio_data)]
              /\ IF s = NoConn
                 THEN UNCHANGED <<pc, inv, run, sent>>
                 ELSE Becomes(c,
                        StartStage(c, [NoRun EXCEPT !.k = run[c].k + 1, !.session = s],
                                   Transcribe([audio_data |-> audio_data,
                                               language |-> session[s].source_language,
                                               provider |-> settings.stt_provider]),
                                   "stt"))
    /\ UNCHANGED <<providers, settings, active_connections, active_sessions, sock>>

\* an audio_chunk frame arrives: process_audio_chunk up to its first await
ReceiveAudioChunk(c) ==
    /\ pc[c] = "recv"
    /\ sock[c] = "open"
    /\ received < MaxReceived
    /\ received' = received + 1
    /\ \E audio_data \in AudioData :
          LET s == active_sessions[session[c].sid]
          IN  /\ session' = [session EXCEPT ![c].chunks = Append(@, audio_data)]
              /\ IF s = NoConn \/ audio_data = ""
                 THEN UNCHANGED <<pc, inv, run, sent>>
                 ELSE Becomes(c,
                        StartStage(c, [NoRun EXCEPT !.k = run[c].k + 1, !.session = s],
                                   Transcribe([audio_data |-> audio_data,
                                               language |-> session[s].source_language,
                                               provider |-> settings.stt_provider]),
                                   "stt"))
    /\ UNCHANGED <<providers, settings, active_connections, active_sessions, sock>>

\* a service that drops from its registry the adapters that raised
AdapterReturnsRemovesFailed(c) ==
    /\ pc[c] \in {"stt", "translation", "ai"}
    /\ \E w \in AdapterOutcomes(inv[c]) :
          /\ IF Awaiting(w)
             THEN /\ inv' = [inv EXCEPT ![c] = w]
                  /\ UNCHANGED <<pc, run, sent>>
             ELSE Becomes(c, StageEnded(c, run[c], w))
          /\ providers' =
                [providers EXCEPT ![inv[c].cap] =
                    @ \ {w.calls[i].name :
                            i \in {j \in 1..Len(w.calls) : ~w.calls[j].ok}}]
    /\ UNCHANGED <<settings, active_connections, active_sessions,
                   session, sock, received>>

\* the adapter the pipeline awaits returns or raises: the next fallback
\* adapter is called, or the service call ends and the stage's frame (or
\* the error frame) is sent
AdapterReturns(c) ==
    /\ pc[c] \in {"stt", "translation", "ai"}
    /\ \E w \in AdapterOutcomes(inv[c]) :
          IF Awaiting(w)
          THEN /\ inv' = [inv EXCEPT ![c] = w]
               /\ UNCHANGED <<pc, run, sent>>
          ELSE Becomes(c, StageEnded(c, run[c], w))
    /\ UNCHANGED <<providers, settings, active_connections, active_sessions,
                   session, sock, received>>

\* the send of the transcription frame completes
TranscriptionSent(c) ==
    /\ pc[c] = "sent_transcription"
    /\ Becomes(c, AfterTranscription(c, run[c]))
    /\ UNCHANGED <<providers, settings, active_connections, active_sessions,
                   session, sock, received>>

\* the send of the translation frame completes
TranslationSent(c) ==
    /\ pc[c] = "sent_translation"
    /\ Becomes(c, StartAnswer(c, run[c], run[c].question))
    /\ UNCHANGED <<providers, settings, active_connections, active_sessions,
                   session, sock, received>>

\* the send of the answer frame or of the error frame completes
FinalSent(c) ==
    /\ pc[c] = "sent_final"
    /\ Becomes(c, Return(c, run[c]))
    /\ UNCHANGED <<providers, settings, active_connections, active_sessions,
                   session, sock, received>>

\* the config_updated frame; re is history: the data of the config_update
\* frame it answers
ConfigUpdated(sid, data, c, config) ==
    [type |-> "config_updated", session_id |-> sid, data |-> data,
     by |-> <<c, 0>>, re |-> config]

\* an update that resets the target language the frame does not mention
ReceiveConfigUpdateResets(c) ==
    /\ pc[c] = "recv"
    /\ sock[c] = "open"
    /\ received < MaxReceived
    /\ received' = received + 1
    /\ \E config \in ConfigUpdates :
          LET sid == session[c].sid
              s == active_sessions[sid]
          IN  IF s = NoConn
              THEN UNCHANGED <<session, sent>>
              ELSE /\ session' = [session EXCEPT ![s] =
                          [@ EXCEPT
                             !.source_language = Get(config, "source_language", @),
                             !.target_language = Get(config, "target_language", "auto")]]
                   /\ sent' = send_message(active_connections, sock, sid,
                          ConfigUpdated(sid,
                              [source_language |-> session'[s].source_language,
                               target_language |-> session'[s].target_language],
                              c, config))
    /\ UNCHANGED <<providers, settings, inv, active_connections, active_sessions,
                   sock, pc, run>>

\* a config_update frame arrives: update_session_config
ReceiveConfigUpdate(c) ==
    /\ pc[c] = "recv"
    /\ sock[c] = "open"
    /\ received < MaxReceived
    /\ received' = received + 1
    /\ \E config \in ConfigUpdates :
          LET sid == session[c].sid
              s == active_sessions[sid]
          IN  IF s = NoConn
              THEN UNCHANGED <<session, sent>>
              ELSE /\ session' = [session EXCEPT ![s] =
                          [@ EXCEPT
                             !.source_language = Get(config, "source_language", @),
                             !.target_language = Get(config, "target_language", @)]]
                   /\ sent' = send_message(active_connections, sock, sid,
                          ConfigUpdated(sid,
                              [source_language |-> session'[s].source_language,
                               target_language |-> session'[s].target_language],
                              c, config))
    /\ UNCHANGED <<providers, settings, inv, active_connections, active_sessions,
                   sock, pc, run>>

\* Deployments: what startup found and how the service is configured
NoKeys ==
    [openai |-> FALSE, google_speech |-> FALSE, whisper |-> FALSE,
     google_translate |-> FALSE, deepl |-> FALSE, googletrans |-> FALSE,
     anthropic |-> FALSE]

Deployments ==
    {[env |-> NoKeys,
      settings |-> [DefaultSettings EXCEPT !.stt_provider = "mock",
                                           !.translation_provider = "mock"]],
     [env |-> [NoKeys EXCEPT !.openai = TRUE, !.whisper = TRUE,
                             !.google_translate = TRUE],
      settings |-> DefaultSettings]}

\* Handlers and session ids are interchangeable, so the clients are taken to
\* connect in the order c1, c2, the first under "s1" and the second under
\* the same id or another one.
ConnectIds(c) == IF c = "c1" THEN {"s1"} ELSE SessionIds

ConnectsInOrder(c) == c = "c2" => pc["c1"] # "new"

Init ==
    /\ \E d \in Deployments :
          /\ providers = InitializeProviders(d.env)
          /\ settings = d.settings
    /\ inv = [t \in Tasks |-> IdleInv]
    /\ NoConnections

Next ==
    \/ \E c \in Conns : \E sid \in ConnectIds(c) :
          /\ ConnectsInOrder(c)
          /\ Connect(c, sid)
    \/ \E c \in Conns : ClientClose(c)
    \/ \E c \in Conns : Disconnect(c)
    \/ \E c \in Conns : ReceiveAudioChunk(c)
    \/ \E c \in Conns : ReceiveConfigUpdate(c)
    \/ \E c \in Conns : ReceiveMalformed(c)
    \/ \E c \in Conns : ReceivePing(c)
    \/ \E c \in Conns : ReceiveUnknown(c)
    \/ \E c \in Conns : AdapterReturns(c)
    \/ \E c \in Conns : TranscriptionSent(c)
    \/ \E c \in Conns : TranslationSent(c)
    \/ \E c \in Conns : FinalSent(c)

Spec == Init /\ [][Next]_vars

-----------------------------------------------------------------------------
(* Progress of one connection.  The adapters are awaited without a         *)
(* deadline (no asyncio.wait_for, and settings.request_timeout is not      *)
(* handed to any client), so a call whose vendor never answers suspends    *)
(* the coroutine for good.                                                 *)

\* the adapter call the pipeline awaits is one that never returns
ProviderHangs(c) ==
    /\ pc[c] \in {"stt", "translation", "ai"}
    /\ pc' = [pc EXCEPT ![c] = "hung"]
    /\ UNCHANGED <<providers, settings, inv, active_connections, active_sessions,
                   session, sock, sent, run, received>>

\* the one connection of LiveSpec
LiveConn == "c1"

LiveNext ==
    \/ Connect(LiveConn, "s1")
    \/ ClientClose(LiveConn)
    \/ Disconnect(LiveConn)
    \/ ReceiveAudioChunk(LiveConn)
    \/ ReceiveConfigUpdate(LiveConn)
    \/ ReceiveMalformed(LiveConn)
    \/ AdapterReturns(LiveConn)
    \/ ProviderHangs(LiveConn)
    \/ TranscriptionSent(LiveConn)
    \/ TranslationSent(LiveConn)
    \/ FinalSent(LiveConn)

\* the event loop resumes a coroutine whose await has completed: an adapter
\* call that returns is resumed from, a send completes, a closed socket
\* ends the receive loop.  Nothing is assumed of the peer.  (The first
\* conjunct is weak fairness of AdapterReturns, with its enabling condition
\* written out.)
LiveFairness ==
    /\ <>[](pc[LiveConn] \in {"stt", "translation", "ai"})
          => []<><<AdapterReturns(LiveConn)>>_vars
    /\ WF_vars(TranscriptionSent(LiveConn))
    /\ WF_vars(TranslationSent(LiveConn))
    /\ WF_vars(FinalSent(LiveConn))
    /\ WF_vars(Disconnect(LiveConn))

LiveSpec == Init /\ [][LiveNext]_vars /\ LiveFairness

-----------------------------------------------------------------------------
(* Two clients, each with its own session id, that stay connected and send *)
(* audio chunks: the runs of the two handlers side by side.                *)

ConcurrentNext ==
    \/ Connect("c1", "s1")
    \/ Connect("c2", "s2")
    \/ \E c \in Conns : ReceiveAudioChunk(c)
    \/ \E c \in Conns : AdapterReturns(c)
    \/ \E c \in Conns : TranscriptionSent(c)
    \/ \E c \in Conns : TranslationSent(c)
    \/ \E c \in Conns : FinalSent(c)

ConcurrentSpec == Init /\ [][ConcurrentNext]_vars

-----------------------------------------------------------------------------
(* The configuration surface: POST /config/update and GET /config/current, *)
(* next to one connection and its pipeline.  inv[Http] holds the last      *)
(* request of the surface: req the body last written, resp the last answer.*)

\* `if config.field:` (None and the empty string are both false)
Truthy(v) == v \notin {None, ""}

ConfigFields ==
    {"source_language", "target_language", "stt_provider",
     "translation_provider", "answer_provider", "answer_style"}

NoConfigUpdate == [f \in ConfigFields |-> None]

\* the bodies POST /config/update is called with
ConfigUpdateBodies ==
    {[NoConfigUpdate EXCEPT !.stt_provider = "local"],
     [NoConfigUpdate EXCEPT !.translation_provider = "deepl",
                            !.answer_style = "casual"],
     [NoConfigUpdate EXCEPT !.source_language = "en", !.target_language = "zh"],
     [NoConfigUpdate EXCEPT !.answer_provider = "anthropic"]}

\* the assignments of update_config
UpdatedSettings(old, config) ==
    [old EXCEPT
       !.default_source_language =
           IF Truthy(config.source_language) THEN config.source_language ELSE @,
       !.default_target_language =
           IF Truthy(config.target_language) THEN config.target_language ELSE @,
       !.stt_provider =
           IF Truthy(config.stt_provider) THEN config.stt_provider ELSE @,
       !.translation_provider =
           IF Truthy(config.translation_provider) THEN config.translation_provider
           ELSE @,
       !.answer_style =
           IF Truthy(config.answer_style) THEN config.answer_style ELSE @]

\* the dict get_current_config returns
CurrentConfig(st) ==
    [source_language |-> st.default_source_language,
     target_language |-> st.default_target_language,
     stt_provider |-> st.stt_provider,
     translation_provider |-> st.translation_provider,
     answer_style |-> st.answer_style,
     answer_max_length |-> st.answer_max_length]

update_config ==
    /\ inv[Http].cap \in {"none", "config"}
    /\ \E config \in ConfigUpdateBodies :
          /\ settings' = UpdatedSettings(settings, config)
          /\ inv' = [inv EXCEPT ![Http] =
                        [IdleInv EXCEPT !.cap = "config", !.status = "updated",
                                        !.req = config,
                                        !.resp = [status |-> "success"]]]
    /\ UNCHANGED <<providers, websocketVars>>

get_current_config ==
    /\ inv[Http].cap \in {"none", "config"}
    /\ inv' = [inv EXCEPT ![Http] =
                  [@ EXCEPT !.cap = "config", !.status = "queried",
                            !.resp = CurrentConfig(settings)]]
    /\ UNCHANGED <<providers, settings, websocketVars>>

ConfigNext ==
    \/ update_config
    \/ get_current_config
    \/ Connect(LiveConn, "s1")
    \/ ReceiveAudioChunk(LiveConn)
    \/ ReceiveConfigUpdate(LiveConn)
    \/ AdapterReturns(LiveConn)
    \/ TranscriptionSent(LiveConn)
    \/ TranslationSent(LiveConn)
    \/ FinalSent(LiveConn)

ConfigSpec == Init /\ [][ConfigNext]_vars

-----------------------------------------------------------------------------
(* _post_process_answer on its own: inv[Http] holds one call of it, its    *)
(* two arguments in req and, once it has returned, its value in resp.      *)

\* the characters of a generated text
PostAlphabet == {"a", Space, ".", "!"}
MaxTextLen == 4
\* max_length is an unconstrained int of the request; the values tried
PostMaxLengths == 0..3

\* longer texts: one whose cut has its last full stop in the last 30%, one
\* whose full stop lies before that, one with runs of blanks
PostLongTexts ==
    {<<"a","a","a","a","a",".","a",Space,"a">>,
     <<"a",".",Space,"a","a","a","a",Space,"a">>,
     <<Space,Space,"a",Space,Space,"a","!",Space,Space>>}

PostTexts ==
    UNION {[1..n -> PostAlphabet] : n \in 0..MaxTextLen} \cup PostLongTexts

PostCalled(answer, max_length) ==
    [IdleInv EXCEPT !.cap = "post_process", !.status = "called",
                    !.req = [provider |-> "", answer |-> answer,
                             max_length |-> max_length]]

post_process_answer ==
    /\ inv[Http].status = "called"
    /\ LET req == inv[Http].req
       IN  inv' = [inv EXCEPT ![Http].status = "returned",
                              ![Http].resp =
                                  [provider |-> "",
                                   answer |-> PostProcessAnswer(req.answer,
                                                                req.max_length)]]
    /\ UNCHANGED <<providers, settings, websocketVars>>

PostInit ==
    /\ providers = InitializeProviders(NoKeys)
    /\ settings = DefaultSettings
    /\ \E answer \in PostTexts : \E max_length \in PostMaxLengths :
          inv = [t \in Tasks |-> IF t = Http THEN PostCalled(answer, max_length)
                                 ELSE IdleInv]
    /\ NoConnections

PostNext == post_process_answer

PostSpec == PostInit /\ [][PostNext]_vars

-----------------------------------------------------------------------------
(* Properties of answer post-processing, stated over the call in inv[Http] *)

Terminators == {".", "!", "?"}

\* the last character of the text is a terminator
Terminated(s) == s # <<>> /\ s[Len(s)] \in Terminators

PostReturned == inv[Http].cap = "post_process" /\ inv[Http].status = "returned"

\* C21: for every generated text and every max_length N the post-processed
\* answer has at most N whitespace-separated words and ends in '.', '!'
\* or '?'.
C21_AtMostNWordsAndTerminated ==
    PostReturned =>
        /\ Len(SplitWords(inv[Http].resp.answer)) <= inv[Http].req.max_length
        /\ Terminated(inv[Http].resp.answer)

\* what of C21 holds for every max_length: the answer is terminated, and it
\* has at most N words when N is at least 1
C21_TerminatedAndBoundedFromOne ==
    PostReturned =>
        /\ Terminated(inv[Http].resp.answer)
        /\ inv[Http].req.max_length >= 1
           => Len(SplitWords(inv[Http].resp.answer)) <= inv[Http].req.max_length

\* the text is whitespace-normalized, has at most max_length words and is
\* terminated
C22_AlreadyProcessed(answer, max_length) ==
    /\ JoinWords(SplitWords(answer)) = answer
    /\ Len(SplitWords(answer)) <= max_length
    /\ Terminated(answer)

\* C22: post-processing an answer that is already whitespace-normalized,
\* has at most max_length words and ends in '.', '!' or '?' returns it
\* unchanged.
C22_ProcessedAnswerUnchanged ==
    (PostReturned /\ C22_AlreadyProcessed(inv[Http].req.answer, inv[Http].req.max_length))
    => inv[Http].resp.answer = inv[Http].req.answer

\* a two-word answer ending in '!' went through unchanged
C22_Witness ==
    /\ PostReturned
    /\ inv[Http].req.answer = <<"a", Space, "a", "!">>
    /\ inv[Http].req.max_length = 2
    /\ inv[Http].resp.answer = <<"a", Space, "a", "!">>

-----------------------------------------------------------------------------
(* Properties of a service invocation (transcribe / translate /            *)
(* generate_answer), stated over inv[t] of every task t.                   *)

\* the adapter calls an invocation made after the call of its primary
FallbackCalls(v) == SubSeq(v.calls, 2, Len(v.calls))

\* C2: once the primary adapter has failed, no later adapter call of the
\* same invocation is a call of the primary again.
C2_PrimaryNotCalledAgain ==
    \A t \in Tasks :
        \A j \in 1..Len(FallbackCalls(inv[t])) :
            FallbackCalls(inv[t])[j].name # inv[t].primary

\* the fallback orders as C3 lists them
C3_Order(cap) ==
    CASE cap = "stt" -> <<"local", "openai", "google">>
      [] cap = "translation" -> <<"google_free", "google", "deepl">>
      [] cap = "ai" -> <<"openai", "anthropic">>

C3_Names(cap) == {C3_Order(cap)[p] : p \in 1..Len(C3_Order(cap))}

C3_Position(cap, name) == CHOOSE p \in 1..Len(C3_Order(cap)) : C3_Order(cap)[p] = name

\* C3: after the primary failed, the fallback adapters are called strictly
\* in the fixed order of the capability (STT: local, openai, google;
\* translation: google_free, google, deepl; answer: openai, anthropic);
\* only registered names are called; a candidate is called only after every
\* registered candidate before it (other than the primary) has been called
\* and failed; every call but the last failed, and a call that succeeded
\* ended the invocation.
C3_FallbackInOrder ==
    \A t \in Tasks :
        LET v == inv[t]
            fb == FallbackCalls(v)
        IN  v.cap \in Caps =>
              /\ \A j \in 1..Len(fb) :
                    /\ fb[j].name \in C3_Names(v.cap)
                    /\ fb[j].name \in providers[v.cap]
                    /\ \A i \in 1..(j - 1) :
                          C3_Position(v.cap, fb[i].name) < C3_Position(v.cap, fb[j].name)
                    /\ \A p \in 1..(C3_Position(v.cap, fb[j].name) - 1) :
                          (C3_Order(v.cap)[p] \in providers[v.cap]
                             /\ C3_Order(v.cap)[p] # v.primary)
                          => \E i \in 1..(j - 1) :
                                fb[i].name = C3_Order(v.cap)[p] /\ ~fb[i].ok
              /\ \A j \in 1..(Len(v.calls) - 1) : ~v.calls[j].ok
              /\ (v.calls # <<>> /\ v.calls[Len(v.calls)].ok) => v.status = "ok"
              /\ v.status = "ok" => (v.calls # <<>> /\ v.calls[Len(v.calls)].ok)

\* a translate call whose primary (deepl) and first fallback (google_free)
\* failed and whose second fallback (google) answered
C3_Witness ==
    /\ inv[Http].cap = "translation"
    /\ inv[Http].status = "ok"
    /\ inv[Http].calls = <<[name |-> "deepl", ok |-> FALSE],
                           [name |-> "google_free", ok |-> FALSE],
                           [name |-> "google", ok |-> TRUE]>>

\* C10: a result returned through the fallback path has a confidence of at
\* most the non-fallback default (0.9).
C10_FallbackConfidenceCapped ==
    \A t \in Tasks :
        (inv[t].status = "ok" /\ Len(inv[t].calls) > 1)
        => inv[t].resp.confidence <= 90

C18_Candidates(v) ==
    {v.primary} \cup {n \in C3_Names(v.cap) : n \in providers[v.cap]}

\* every candidate of invocation v has been called and has failed
C18_EveryCandidateFailed(v) ==
    \A n \in C18_Candidates(v) :
        \E i \in 1..Len(v.calls) : v.calls[i].name = n /\ ~v.calls[i].ok

\* C18: an invocation that has ended has raised the all-providers-failed
\* error if and only if its primary and every registered fallback candidate
\* have been called and have failed.
C18_AllFailedIffEveryCandidateFailed ==
    \A t \in Tasks :
        (inv[t].cap \in Caps /\ inv[t].status \in {"ok", "all_failed"})
        => (inv[t].status = "all_failed" <=> C18_EveryCandidateFailed(inv[t]))

\* the direction of C18 from the error to the failed calls
C18_AllFailedOnlyAfterEveryCandidate ==
    \A t \in Tasks :
        (inv[t].cap \in Caps /\ inv[t].status = "all_failed")
        => C18_EveryCandidateFailed(inv[t])

\* the fallback tags a response carries: its own field or its metadata entry
C19_FallbackTags(resp) ==
    (IF "fallback" \in DOMAIN resp THEN {resp.fallback} ELSE {})
    \cup (IF "metadata" \in DOMAIN resp /\ "fallback" \in DOMAIN resp.metadata
          THEN {resp.metadata.fallback} ELSE {})

\* C19: the result of an invocation is tagged fallback=false when the
\* primary adapter produced it and fallback=true when a fallback adapter
\* produced it, for speech-to-text, translation and answer generation.
C19_ResultTaggedWithFallback ==
    \A t \in Tasks :
        (inv[t].cap \in Caps /\ inv[t].status = "ok")
        => C19_FallbackTags(inv[t].resp) = {Len(inv[t].calls) > 1}

\* the part of C19 the answer-generation fallback path does satisfy
C19_AiFallbackTagged ==
    \A t \in Tasks :
        (inv[t].cap = "ai" /\ inv[t].status = "ok" /\ Len(inv[t].calls) > 1)
        => C19_FallbackTags(inv[t].resp) = {TRUE}

\* the real adapters a capability has registered
C20_RealRegistered(cap) == providers[cap] \ {"mock"}

C27_Answered == inv[Http].status = "idle" /\ "status_code" \in DOMAIN inv[Http].resp

\* C27: a synchronous endpoint answers 503 only when the capability's
\* service is not available (it has no registered adapter) and 500 only
\* when an adapter call raised.
C27_FailureKindsDistinguished ==
    C27_Answered =>
        LET r == inv[Http].resp
        IN  /\ r.status_code \in {200, 500, 503}
            /\ r.status_code = 503 => providers[r.of.cap] = {}
            /\ r.status_code = 500 =>
                  \E i \in 1..Len(r.of.calls) : ~r.of.calls[i].ok

\* the part of C27 that holds: a request whose adapters all raised is
\* answered 500, and a result is answered 200
C27_AllFailedIs500 ==
    C27_Answered =>
        /\ inv[Http].resp.of.status = "all_failed" => inv[Http].resp.status_code = 500
        /\ inv[Http].resp.of.status = "ok" => inv[Http].resp.status_code = 200

\* GET /health has been answered
C31_Reported == inv[Http].status = "idle" /\ "services" \in DOMAIN inv[Http].resp

\* C31: the health surface reports a capability as healthy if and only if
\* at least one adapter (mock included) is registered for it, and the
\* overall status is 'healthy' only when every reported service is healthy.
C31_HealthyIffAdapterRegistered ==
    C31_Reported =>
        LET r == inv[Http].resp
        IN  /\ \A cap \in Caps :
                  r.services[HealthName(cap)] = "healthy" <=> providers[cap] # {}
            /\ r.status = "healthy" =>
                  \A n \in DOMAIN r.services : r.services[n] = "healthy"

\* health reported with a translation registry that holds the mock adapter
\* only
C31_Witness ==
    /\ C31_Reported
    /\ providers["translation"] = {"mock"}
    /\ providers["stt"] # {"mock"}
    /\ inv[Http].resp.services.translation = "healthy"
    /\ inv[Http].resp.status = "healthy"

\* C35: when the primary adapter succeeds, exactly one adapter call is made
\* in that invocation: the call of the adapter first requested; no fallback
\* adapter is called, the invocation has returned, and the provider field of
\* its result is the primary's name.
C35_PrimarySuccessIsTheOnlyCall ==
    \A t \in Tasks :
        LET v == inv[t]
        IN  (v.cap \in Caps /\ v.calls # <<>> /\ v.calls[1].ok) =>
               /\ v.calls = <<[name |-> v.primary, ok |-> TRUE]>>
               /\ FallbackCalls(v) = <<>>
               /\ v.status = "ok"
               /\ v.resp.provider = v.primary

\* a generate_answer call whose primary, anthropic, answered although the
\* fallback order holds a registered adapter (openai) that was not called
C35_Witness ==
    /\ inv[Http].cap = "ai"
    /\ inv[Http].status = "ok"
    /\ inv[Http].primary = "anthropic"
    /\ "openai" \in providers["ai"]
    /\ inv[Http].calls = <<[name |-> "anthropic", ok |-> TRUE]>>
    /\ inv[Http].resp.provider = "anthropic"

-----------------------------------------------------------------------------
(* Properties of the WebSocket pipeline, stated over the run of every      *)
(* handler: run[c] is the run in progress or, at the receive loop, the     *)
(* last run that ended.                                                    *)

\* positions inside process_audio_chunk
InRun == {"stt", "translation", "ai", "sent_transcription", "sent_translation",
          "sent_final"}

\* the types of the frames a run has emitted, in order
Types(r) == [i \in 1..Len(r.frames) |-> r.frames[i].frame.type]

\* the headers in the log of websocket w that come from run k of handler c
FromRun(w, c, k) == SelectSeq(sent[w], LAMBDA h : h.by = <<c, k>>)

\* no other handler serves the session id of handler c
OwnSessionId(c) == \A d \in Conns \ {c} : session[d].sid # session[c].sid

MockAdaptersInUse == \A cap \in Caps : providers[cap] = {"mock"}

\* C1: pipeline runs of one session never overlap: no two handlers are
\* inside a run for the same session id at once, and on every websocket the
\* frames of one run of a session are not separated by a frame of another
\* run of that session.
C1_RunsDoNotOverlap ==
    /\ \A c \in Conns : \A d \in Conns \ {c} :
          (pc[c] \in InRun /\ pc[d] \in InRun) => session[c].sid # session[d].sid
    /\ \A w \in Conns : \A i, j, k \in 1..Len(sent[w]) :
          (/\ i < j /\ j < k
           /\ sent[w][i].by[2] > 0 /\ sent[w][j].by[2] > 0
           /\ sent[w][i].by = sent[w][k].by
           /\ sent[w][i].session_id = sent[w][j].session_id)
          => sent[w][j].by = sent[w][i].by

\* C4: when the base subtag of the language the transcription detected
\* equals the base subtag of the session's target language (the one the run
\* read when it decided), translation is not invoked and no translation
\* frame is emitted.
C4_NoTranslationForSameLanguage ==
    \A c \in Conns :
        /\ pc[c] = "translation"
           => is_translation_needed(run[c].transcription.language,
                                    inv[c].req.target_language)
        /\ pc[c] = "sent_translation"
           => is_translation_needed(run[c].transcription.language,
                                    run[c].sending.data.target_language)

\* the message that names the failed stage
C5_Message(cap) ==
    CASE cap = "stt" -> "All STT providers failed"
      [] cap = "translation" -> "All translation providers failed"
      [] cap = "ai" -> "All AI providers failed"

\* the frame types a run may have emitted before stage cap failed
C5_Before(cap) ==
    CASE cap = "stt" -> {<<>>}
      [] cap = "translation" -> {<<"transcription">>}
      [] cap = "ai" -> {<<"transcription">>, <<"transcription", "translation">>}

Blank(text) == Strip(text) = <<>>

\* the run of handler c holds a transcription whose text is empty or
\* whitespace only
C6_BlankTranscription(c) ==
    /\ run[c].transcription # NoResp
    /\ run[c].transcription.text \in {<<>>, <<Space>>}

\* C6 (state part): a run whose transcription came back blank has emitted
\* the transcription frame with that text and nothing else, has made no
\* service call but the transcription, and awaits no adapter.
C6_OnlyTranscriptionSoFar ==
    \A c \in Conns :
        C6_BlankTranscription(c) =>
            /\ pc[c] = "sent_transcription"
            /\ inv[c] = IdleInv
            /\ Types(run[c]) = <<"transcription">>
            /\ run[c].sending.type = "transcription"
            /\ run[c].sending.data.text = run[c].transcription.text
            /\ run[c].invoked = <<[cap |-> "stt", status |-> "ok"]>>

\* C6 (step part): the next step of such a run is its return to the
\* receive loop: no frame is emitted, no service is called.
C6_ThenReturns ==
    \A c \in Conns :
        (C6_BlankTranscription(c) /\ pc'[c] # pc[c]) =>
            /\ pc'[c] = "recv"
            /\ inv'[c] = IdleInv
            /\ run'[c].frames = run[c].frames
            /\ run'[c].invoked = run[c].invoked
            /\ sent' = sent

\* C6: when transcription returns empty or whitespace-only text, the run
\* emits exactly one transcription frame (with that text) and then ends:
\* no translation, answer or error frame, and neither translation nor
\* answer generation is invoked.
C6_BlankTranscriptionEndsRun ==
    []C6_OnlyTranscriptionSoFar /\ [][C6_ThenReturns]_vars

\* a run has ended having emitted, to an open websocket, a transcription
\* frame only (the last step of such a run is the return after a blank text)
C6_Witness ==
    \E c \in Conns :
        /\ pc[c] = "recv"
        /\ run[c].k = 1
        /\ Types(run[c]) = <<"transcription">>
        /\ run[c].frames[1].to = c
        /\ run[c].invoked = <<[cap |-> "stt", status |-> "ok"]>>
        /\ FromRun(c, c, 1) = <<[type |-> "transcription", session_id |-> session[c].sid,
                                  by |-> <<c, 1>>]>>

\* C7: with the mock adapters in use, a run of a session with source 'en'
\* and target 'en' whose transcription is not blank has emitted, when its
\* last frame is sent, a transcription frame followed by an answer frame
\* and nothing else.
C7_MockSameLanguage ==
    \A c \in Conns :
        (/\ MockAdaptersInUse
         /\ OwnSessionId(c)
         /\ pc[c] = "sent_final"
         /\ session[c].source_language = "en"
         /\ session[c].target_language = "en"
         /\ run[c].transcription # NoResp
         /\ ~Blank(run[c].transcription.text))
        => Types(run[c]) = <<"transcription", "answer">>

\* C8: with the mock adapters in use, a run of a session with source 'en'
\* and target 'zh' whose transcription is not blank emits a translation
\* frame whose translated text is the mock prefix followed by the
\* transcribed text, and has emitted, when its last frame is sent, a
\* transcription, a translation and an answer frame in this order.
C8_MockTranslated ==
    \A c \in Conns :
        (/\ MockAdaptersInUse
         /\ OwnSessionId(c)
         /\ session[c].source_language = "en"
         /\ session[c].target_language = "zh"
         /\ run[c].transcription # NoResp
         /\ ~Blank(run[c].transcription.text))
        => /\ pc[c] = "sent_translation" =>
                run[c].sending.data.translated_text
                    = <<"[zh translation]", Space>> \o run[c].transcription.text
           /\ pc[c] = "sent_final" =>
                Types(run[c]) = <<"transcription", "translation", "answer">>

\* C9: when the primary STT provider failed and a fallback produced the
\* text, the transcription frame carries a provider field that names that
\* fallback adapter.
C9_TranscriptionFrameNamesFallback ==
    \A c \in Conns :
        LET r == run[c]
        IN  (/\ pc[c] = "sent_transcription"
             /\ r.call.cap = "stt"
             /\ Len(r.call.calls) > 1)
            => /\ "provider" \in DOMAIN r.sending.data
               /\ r.sending.data.provider = r.call.calls[Len(r.call.calls)].name

-----------------------------------------------------------------------------
(* Properties of the connection map and the session registry.              *)

\* the connection of handler c is live: accepted, and its endpoint coroutine
\* has not ended
Live(c) == pc[c] \notin {"new", "closed"}

\* C11: the session ids in the session registry, and those in the
\* connection map, are exactly the session ids of the live connections.
C11_RegisteredIffLive ==
    /\ {sid \in SessionIds : active_sessions[sid] # NoConn}
          = {session[c].sid : c \in {d \in Conns : Live(d)}}
    /\ {sid \in SessionIds : active_connections[sid] # NoConn}
          = {session[c].sid : c \in {d \in Conns : Live(d)}}

\* C12: a frame that is not a JSON object is dropped: as long as the peer
\* has not closed the websocket, the handler stays in its receive loop (or
\* in a pipeline run started from it), and its session, when no other
\* connection uses the id, stays registered with its connection.
C12_MalformedFrameDropped ==
    \A c \in Conns :
        sock[c] = "open" =>
            /\ pc[c] \in {"recv"} \cup InRun
            /\ OwnSessionId(c) =>
                  /\ active_sessions[session[c].sid] = c
                  /\ active_connections[session[c].sid] = c
\* handler c starts an adapter call in this step (the primary of a stage or
\* a fallback attempt)
StartsAdapterCall(c) == Awaiting(inv'[c]) /\ inv'[c] # inv[c]

\* C13 (step): a handler whose websocket has been closed while its run is
\* in flight starts no further adapter call.
C13_NoCallAfterClose ==
    \A c \in Conns :
        (sock[c] = "closed" /\ pc[c] \in InRun) => ~StartsAdapterCall(c)

\* C13: closing a connection while a pipeline run for its session is in
\* flight cancels the run: after the close no further stage or fallback
\* attempt of that run is invoked.
C13_CloseCancelsRun == [][C13_NoCallAfterClose]_vars
\* the run of handler c hands a frame to send_message in this step
EmitsRunFrame(c) == run'[c].frames # run[c].frames /\ run'[c].frames # <<>>

\* C14 (step): when a run hands a frame to send_message, the websocket
\* registered for the session id, if there is one, is open: send_text is
\* not called on a closed websocket.
C14_SendOnlyOnOpen ==
    \A c \in Conns :
        EmitsRunFrame(c) =>
            \/ active_connections[session[c].sid] = NoConn
            \/ sock[active_connections[session[c].sid]] = "open"

\* C14: no send is attempted on a closed connection: a frame produced for
\* a session whose connection has closed is dropped without a call of
\* send on the socket.
C14_NoSendOnClosed == [][C14_SendOnlyOnOpen]_vars
\* C15: every pipeline run eventually ends (returns to the receive loop),
\* even when a provider call never returns.
C15_EveryRunEnds ==
    \A c \in Conns :
        (pc[c] \in InRun \cup {"hung"}) ~> (pc[c] \in {"recv", "closed"})
\* the run of handler c that is in progress, or its last run, has emitted an
\* error frame
RunFailed(c) == run[c].frames # <<>> /\ Types(run[c])[Len(run[c].frames)] = "error"

\* C16 (state part): a handler back in its receive loop after a failed run,
\* whose peer has not closed and whose session id no other connection
\* uses, still has its session and its connection registered.
C16_StillRegistered ==
    \A c \in Conns :
        (pc[c] = "recv" /\ RunFailed(c) /\ sock[c] = "open" /\ OwnSessionId(c))
        => /\ active_sessions[session[c].sid] = c
           /\ active_connections[session[c].sid] = c

\* C16 (step part): the step after the error frame returns to the receive
\* loop and touches neither the websocket nor the two maps nor the
\* session; the next run of the handler is a fresh one: numbered next,
\* with no frame and no service call yet, awaiting the primary STT adapter.
C16_ReturnsAndRestarts ==
    \A c \in Conns :
        /\ (pc[c] = "sent_final" /\ RunFailed(c) /\ pc'[c] # pc[c])
           => /\ pc'[c] = "recv"
              /\ UNCHANGED <<sock, active_connections, active_sessions, session>>
        /\ (pc[c] = "recv" /\ RunFailed(c) /\ run'[c] # run[c])
           => /\ run'[c].k = run[c].k + 1
              /\ run'[c].frames = <<>>
              /\ run'[c].invoked = <<>>
              /\ run'[c].transcription = NoResp
              /\ pc'[c] = "stt"
              /\ inv'[c].cap = "stt"
              /\ inv'[c].status = "primary"
              /\ inv'[c].calls = <<>>

C23_OtherSessionUntouched(c, d) ==
    session[d].sid # session[c].sid =>
        /\ session'[d] = session[d]
        /\ sock'[d] = sock[d]
        /\ pc'[d] = pc[d]
        /\ run'[d] = run[d]
        /\ inv'[d] = inv[d]
        /\ sent'[d] = sent[d]

\* C23 (step): when the handler of a session leaves its receive loop, by a
\* disconnect or by an exception, the step that reports the exception
\* changes neither map, the finally block removes the entries under that
\* session id and no other entry, and both steps leave every handler of
\* another session id unchanged.
C23_EndsOwnSessionOnly ==
    \A c \in Conns :
        LET sid == session[c].sid
        IN  /\ (pc[c] = "recv" /\ pc'[c] = "ws_error") =>
                  /\ active_connections' = active_connections
                  /\ active_sessions' = active_sessions
                  /\ \A d \in Conns \ {c} : C23_OtherSessionUntouched(c, d)
            /\ (pc[c] \in {"recv", "ws_error"} /\ pc'[c] = "closed") =>
                  /\ active_connections'[sid] = NoConn
                  /\ active_sessions'[sid] = NoConn
                  /\ \A s \in SessionIds \ {sid} :
                        /\ active_connections'[s] = active_connections[s]
                        /\ active_sessions'[s] = active_sessions[s]
                  /\ \A d \in Conns \ {c} : C23_OtherSessionUntouched(c, d)

\* C23: a connection-level failure or disconnect of one session removes
\* only that session's entries from the connection map and the session
\* registry; every other session's connection, languages and in-flight run
\* are left unchanged.
C23_FailureIsolatedToSession == [][C23_EndsOwnSessionOnly]_vars

\* the handler of s1 has ended and its entries are gone while the handler of
\* s2 is registered and inside a run
C23_Witness ==
    /\ pc["c1"] = "closed"
    /\ session["c1"].sid = "s1"
    /\ active_connections["s1"] = NoConn
    /\ active_sessions["s1"] = NoConn
    /\ session["c2"].sid = "s2"
    /\ active_connections["s2"] = "c2"
    /\ active_sessions["s2"] = "c2"
    /\ pc["c2"] = "translation"
    /\ sock["c2"] = "open"

\* handler c is suspended in an adapter call of its run
C24_Suspended(c) == pc[c] \in {"stt", "translation", "ai"}

\* C24: while the run of one session is suspended in a provider call, a
\* handler of another session id is not held up by it: at its receive loop
\* an audio chunk starts its run, and inside its run every next step (the
\* return of its adapter, the completion of its sends up to the return to
\* the loop) can be taken.
C24_OtherSessionNotBlocked ==
    \A c \in Conns : \A d \in Conns \ {c} :
        (C24_Suspended(c) /\ session[d].sid # session[c].sid) =>
            /\ (pc[d] = "recv" /\ sock[d] = "open" /\ received < MaxReceived)
               => ENABLED ReceiveAudioChunk(d)
            /\ pc[d] \in {"stt", "translation", "ai"} => ENABLED AdapterReturns(d)
            /\ pc[d] = "sent_transcription" => ENABLED TranscriptionSent(d)
            /\ pc[d] = "sent_translation" => ENABLED TranslationSent(d)
            /\ pc[d] = "sent_final" => ENABLED FinalSent(d)

\* the first run of s1 still awaits its first adapter and the first run of
\* s2 has sent its answer and returned to the receive loop
C24_Witness ==
    /\ session["c1"].sid = "s1"
    /\ session["c2"].sid = "s2"
    /\ pc["c1"] = "stt"
    /\ run["c1"].k = 1
    /\ inv["c1"].calls = <<>>
    /\ pc["c2"] = "recv"
    /\ run["c2"].k = 1
    /\ run["c2"].frames # <<>>
    /\ run["c2"].frames[Len(run["c2"].frames)].frame.type = "answer"
    /\ run["c2"].frames[Len(run["c2"].frames)].to = "c2"

-----------------------------------------------------------------------------
(* Properties of the configuration surface *)

\* the session object the run of handler c works with
C25_Session(c) == session[run[c].session]

\* C25: a write to the configuration surface changes behaviour only for
\* sessions created afterwards: the service calls of a session's runs name
\* the providers and the answer style that were configured when the session
\* was created, and use the session's own languages.
C25_RunUsesSettingsOfCreation ==
    \A c \in Conns :
        (pc[c] \in {"stt", "translation", "ai"} /\ Awaiting(inv[c])) =>
            /\ inv[c].cap = "stt" =>
                  /\ inv[c].primary = C25_Session(c).created.stt_provider
                  /\ inv[c].req.language = C25_Session(c).source_language
            /\ inv[c].cap = "translation" =>
                  /\ inv[c].primary = C25_Session(c).created.translation_provider
                  /\ inv[c].req.target_language = C25_Session(c).target_language
            /\ inv[c].cap = "ai" =>
                  /\ inv[c].req.style = C25_Session(c).created.answer_style
                  /\ inv[c].req.language = C25_Session(c).target_language

\* the part of C25 that holds: the languages of a run are the session's
C25_RunUsesSessionLanguages ==
    \A c \in Conns :
        (pc[c] \in {"stt", "translation", "ai"} /\ Awaiting(inv[c])) =>
            /\ inv[c].cap = "stt"
               => inv[c].req.language = C25_Session(c).source_language
            /\ inv[c].cap = "translation"
               => inv[c].req.target_language = C25_Session(c).target_language
            /\ inv[c].cap = "ai"
               => inv[c].req.language = C25_Session(c).target_language

\* C26: after a configuration update, the next configuration query returns
\* every field the update wrote with the written value.
C26_WrittenFieldsReturned ==
    (inv[Http].cap = "config" /\ inv[Http].status = "queried"
        /\ inv[Http].req \in ConfigUpdateBodies) =>
        \A f \in ConfigFields :
            Truthy(inv[Http].req[f]) =>
                /\ f \in DOMAIN inv[Http].resp
                /\ inv[Http].resp[f] = inv[Http].req[f]

\* the parts of C26 that hold: the five fields update_config assigns are
\* returned as written
C26_AssignedFieldsReturned ==
    (inv[Http].cap = "config" /\ inv[Http].status = "queried"
        /\ inv[Http].req \in ConfigUpdateBodies) =>
        \A f \in ConfigFields \ {"answer_provider"} :
            Truthy(inv[Http].req[f]) => inv[Http].resp[f] = inv[Http].req[f]

\* and a step of update_config leaves the fields its body omits as they were
C26_OmittedFieldsKept ==
    [][(inv'[Http].cap = "config" /\ inv'[Http].status = "updated") =>
          \A f \in ConfigFields \ {"answer_provider"} :
              ~Truthy(inv'[Http].req[f])
              => CurrentConfig(settings')[f] = CurrentConfig(settings)[f]]_vars

-----------------------------------------------------------------------------
(* Properties of the session-scoped frames *)

\* the step appends a config_updated frame to the websocket of handler c
C28_Answered(c) ==
    /\ Len(sent'[c]) = Len(sent[c]) + 1
    /\ sent'[c][Len(sent'[c])].type = "config_updated"

\* C28 (step): the step that answers a config_update frame of a session
\* sets the languages the frame contains, keeps the language it does not
\* mention, changes no other session and writes one config_updated frame,
\* which carries the session's resulting languages.
C28_AppliesOverrides ==
    \A c \in Conns :
        (OwnSessionId(c) /\ C28_Answered(c)) =>
            LET h == sent'[c][Len(sent'[c])]
            IN  /\ h.by = <<c, 0>>
                /\ session'[c].source_language =
                      Get(h.re, "source_language", session[c].source_language)
                /\ session'[c].target_language =
                      Get(h.re, "target_language", session[c].target_language)
                /\ h.data = [source_language |-> session'[c].source_language,
                             target_language |-> session'[c].target_language]
                /\ sent'[c] = Append(sent[c], h)
                /\ \A d \in Conns \ {c} :
                      session'[d] = session[d] /\ sent'[d] = sent[d]

\* C28 (state): a run of the session in flight works with the languages the
\* session has now
C28_RunUsesSessionLanguages ==
    \A c \in Conns :
        (OwnSessionId(c) /\ pc[c] \in {"stt", "translation", "ai"}
            /\ Awaiting(inv[c])) =>
            /\ inv[c].cap = "stt" => inv[c].req.language = session[c].source_language
            /\ inv[c].cap = "translation"
               => inv[c].req.target_language = session[c].target_language
            /\ inv[c].cap = "ai" => inv[c].req.language = session[c].target_language

Capabilities == <<"transcription", "translation", "answer_generation">>

\* C29: on connection open the first frame the server sends on that
\* connection is a status frame announcing the capabilities: an accepted
\* websocket has been sent at least one frame, and the first one is the
\* status frame of its own handler.
C29_StatusFrameFirst ==
    \A c \in Conns :
        pc[c] # "new" =>
            /\ sent[c] # <<>>
            /\ sent[c][1].type = "status"
            /\ sent[c][1].by = <<c, 0>>
            /\ sent[c][1].session_id = session[c].sid
            /\ sent[c][1].data.capabilities = Capabilities

\* the second connection of a session id whose first connection is inside
\* a run got its status frame first and then a frame of that run
C29_Witness ==
    /\ session["c1"].sid = "s1"
    /\ session["c2"].sid = "s1"
    /\ Len(sent["c2"]) >= 2
    /\ sent["c2"][1].type = "status"
    /\ sent["c2"][2].by = <<"c1", 1>>

\* the languages and the identity of a session
C30_SessionState(c) ==
    [source_language |-> session[c].source_language,
     target_language |-> session[c].target_language,
     sid |-> session[c].sid]

\* C30 (step): the step in which handler c logs a frame of unknown type
\* sends no frame on any websocket, changes no session, neither map, no run
\* and no service call, and leaves the websocket open and the handler in
\* its receive loop.
C30_NothingButTheLog ==
    \A c \in Conns :
        session'[c].ignored = session[c].ignored + 1 =>
            /\ sent' = sent
            /\ \A d \in Conns : C30_SessionState(d)' = C30_SessionState(d)
            /\ UNCHANGED <<active_connections, active_sessions, sock, pc, run, inv>>
            /\ sock[c] = "open"
            /\ pc[c] = "recv"

\* C30: an inbound frame whose type is not audio_chunk, config_update or
\* ping is ignored: no outbound frame (in particular no error frame) is
\* sent, session state is unchanged and the connection stays open.
C30_UnknownTypeIgnored == [][C30_NothingButTheLog]_vars

\* a frame of unknown type was handled: the websocket holds the status
\* frame only, is open and registered, and the handler awaits the next frame
C30_Witness ==
    /\ session["c1"].ignored = 1
    /\ received = 1
    /\ sent["c1"] = <<sent["c1"][1]>>
    /\ sent["c1"][1].type = "status"
    /\ sock["c1"] = "open"
    /\ pc["c1"] = "recv"
    /\ active_connections["s1"] = "c1"
    /\ active_sessions["s1"] = "c1"

-----------------------------------------------------------------------------
(* Properties of the registries across service calls *)

\* task t enters a service call in this step
C32_CallStarts(t) ==
    /\ inv'[t] # inv[t]
    /\ inv'[t].cap \in Caps
    /\ inv'[t].calls = <<>>
    /\ inv'[t].status \in {"primary", "config_error"}

\* C32 (step): no step adds or removes an adapter, and a service call that
\* names a registered adapter starts by calling that adapter as primary.
C32_RegistryKeptAndPrimaryCalled ==
    /\ providers' = providers
    /\ \A t \in Tasks :
          (C32_CallStarts(t) /\ inv'[t].primary \in providers[inv'[t].cap])
          => /\ inv'[t].status = "primary"
             /\ Callee(inv'[t]) = inv'[t].primary

\* C32: adapter failures are not sticky: no transcribe, translate or
\* generate_answer call, whether it succeeds, falls back or fails, adds or
\* removes an adapter, so an adapter that failed in one call is called
\* again as primary on the next call that names it.
C32_FailuresNotSticky == [][C32_RegistryKeptAndPrimaryCalled]_vars

\* The first run of the handler ended with the error frame as its only
\* frame: its STT call failed though the configured adapter (openai) is
\* registered, so every STT adapter raised.  The second run awaits openai
\* as primary again.
C32_Witness ==
    /\ OwnSessionId("c1")
    /\ "openai" \in providers["stt"]
    /\ settings.stt_provider = "openai"
    /\ Len(FromRun("c1", "c1", 1)) = 1
    /\ FromRun("c1", "c1", 1)[1].type = "error"
    /\ run["c1"].k = 2
    /\ pc["c1"] = "stt"
    /\ inv["c1"].status = "primary"
    /\ inv["c1"].calls = <<>>
    /\ Callee(inv["c1"]) = "openai"

-----------------------------------------------------------------------------
(* Properties of the answer stage of a run *)

\* the number of answer-generation calls of the run of handler c, the one
\* in flight included
C33_AnswerCalls(c) ==
    Cardinality({i \in 1..Len(run[c].invoked) : run[c].invoked[i].cap = "ai"})
    + (IF inv[c].cap = "ai" THEN 1 ELSE 0)

\* C33 (state): a run invokes answer generation at most once, and while
\* the call is in flight the run has emitted its transcription frame, and
\* its translation frame after it if it called translation, and nothing else.
C33_OnceAndAfterTheFrames ==
    \A c \in Conns :
        /\ C33_AnswerCalls(c) <= 1
        /\ inv[c].cap = "ai" =>
              /\ pc[c] = "ai"
              /\ Types(run[c]) =
                    (IF \E i \in 1..Len(run[c].invoked) :
                           run[c].invoked[i].cap = "translation"
                     THEN <<"transcription", "translation">>
                     ELSE <<"transcription">>)

\* C33 (step): the step that starts answer generation after the translation
\* frame passes the translated text of that frame as the question; the
\* step that starts it after the transcription frame (translation
\* skipped) passes the transcribed text.
C33_QuestionIsLastText ==
    \A c \in Conns :
        /\ (pc[c] = "sent_translation" /\ pc'[c] = "ai")
           => inv'[c].req.question = run[c].sending.data.translated_text
        /\ (pc[c] = "sent_transcription" /\ pc'[c] = "ai")
           => inv'[c].req.question = run[c].sending.data.text

\* C33: the question passed to answer generation is the translated text
\* when the run performed translation and the transcribed text when
\* translation was skipped; answer generation is invoked at most once per
\* run and only after the transcription frame (and the translation frame,
\* if any) has been emitted.
C33_QuestionAndOrder ==
    []C33_OnceAndAfterTheFrames /\ [][C33_QuestionIsLastText]_vars

\* answer generation is in flight after a translation, asked with the
\* translated text, which differs from the transcribed one
C33_Witness ==
    /\ pc["c1"] = "ai"
    /\ Types(run["c1"]) = <<"transcription", "translation">>
    /\ run["c1"].transcription.text = <<"hi">>
    /\ inv["c1"].req.question = <<"ni hao">>

\* and one in flight after a skipped translation, asked with the
\* transcribed text
C33_WitnessSkipped ==
    /\ pc["c1"] = "ai"
    /\ Types(run["c1"]) = <<"transcription">>
    /\ inv["c1"].req.question = <<"hi">>

-----------------------------------------------------------------------------
(* Properties of the ping frame *)

\* C34 (step): the step in which handler c handles a ping frame, on an open
\* websocket whose session id no other connection uses, appends exactly
\* one frame to that websocket, a pong frame of the same session id, and no
\* frame to any other; it changes no session, neither map, no run and no
\* service call.
C34_OnePongNothingElse ==
    \A c \in Conns :
        (session'[c].pings = session[c].pings + 1 /\ OwnSessionId(c)) =>
            /\ sent'[c] = Append(sent[c], [type |-> "pong",
                                           session_id |-> session[c].sid,
                                           by |-> <<c, 0>>])
            /\ \A d \in Conns \ {c} : sent'[d] = sent[d]
            /\ \A d \in Conns : C30_SessionState(d)' = C30_SessionState(d)
            /\ UNCHANGED <<active_connections, active_sessions, sock, pc, run, inv,
                           providers>>

-----------------------------------------------------------------------------
(* Two connections under one session id *)

\* C36 (step): c and d are live under one session id and d, opened last,
\* holds the entries of both maps; the step in which c ends leaves both
\* entries with d.
C36_NewerKeptWhenOlderEnds ==
    \A c \in Conns : \A d \in Conns \ {c} :
        LET sid == session[c].sid
        IN  (/\ Live(c) /\ Live(d)
             /\ session[d].sid = sid
             /\ active_connections[sid] = d
             /\ active_sessions[sid] = d
             /\ pc'[c] = "closed")
            => /\ active_connections'[sid] = d
               /\ active_sessions'[sid] = d

\* C36: when two connections are opened under the same session identifier,
\* closing the older connection leaves the newer connection registered in
\* the connection map and the session registry, so frames for that session
\* still reach the newer connection.
C36_ClosingOlderKeepsNewer == [][C36_NewerKeptWhenOlderEnds]_vars

-----------------------------------------------------------------------------
(* Properties of the audio_chunk frame that starts no run *)

\* C37 (step): the step in which handler c handles an audio_chunk frame
\* whose audio_data is missing or empty, or while the session registry holds
\* no entry under its session id, starts no service call and no run, sends
\* no frame on any websocket and leaves every handler where it was.
C37_NoCallNoFrame ==
    \A c \in Conns :
        (/\ Len(session'[c].chunks) = Len(session[c].chunks) + 1
         /\ \/ session'[c].chunks[Len(session'[c].chunks)] = ""
            \/ active_sessions[session[c].sid] = NoConn)
        => /\ inv' = inv
           /\ run' = run
           /\ sent' = sent
           /\ pc' = pc
           /\ sock' = sock

\* C37: an audio_chunk frame whose data has no audio_data (missing or
\* empty), or that arrives for a session id no longer in the session
\* registry, invokes no provider and emits no frame of any type.
C37_EmptyOrUnregisteredChunkDropped == [][C37_NoCallNoFrame]_vars

\* a registered session's handler has handled a chunk without audio_data:
\* it awaits the next frame, no call was made and only the status frame
\* was sent
C37_Witness ==
    /\ session["c1"].chunks = <<"">>
    /\ active_sessions[session["c1"].sid] = "c1"
    /\ pc["c1"] = "recv"
    /\ sock["c1"] = "open"
    /\ inv["c1"] = IdleInv
    /\ run["c1"] = NoRun
    /\ Len(sent["c1"]) = 1

\* a handler has handled a chunk with audio_data after the entries of its
\* session id were removed: no call was made and no frame sent
C37_WitnessUnregistered ==
    /\ session["c2"].chunks = <<"AAAA">>
    /\ active_sessions[session["c2"].sid] = NoConn
    /\ pc["c2"] = "recv"
    /\ sock["c2"] = "open"
    /\ inv["c2"] = IdleInv
    /\ run["c2"] = NoRun
    /\ Len(sent["c2"]) = 1

-----------------------------------------------------------------------------
(* AudioBuffer: the circular buffer of audio samples.                      *)
(* The object is held in inv[Http].req, the outcome of the last            *)
(* get_audio_data call in inv[Http].resp.  Samples are numbered in the     *)
(* order in which they were written (the code never looks at their         *)
(* values); 0 is the initial content.  Positions are 0-based as in the     *)
(* code, sequences 1-based.  numpy is taken to be installed.               *)
(*   written: history (every sample passed to add_chunk, oldest first)    *)
(*   a duration is given in whole samples, int(duration * sample_rate),    *)
(*   as a sequence: <<>> for None, <<n>> for n samples                     *)

\* max_samples of the buffers tried, the chunk sizes tried (some larger than
\* every buffer) and the number of samples written in one behaviour
MaxBufferSamples == 4
MaxChunkSamples == 5
MaxWritten == 9

Minimum(a, b) == IF a <= b THEN a ELSE b
Maximum(a, b) == IF a >= b THEN a ELSE b

\* s[a:b] for 0 <= a and b <= len(s)
PySlice(s, a, b) == SubSeq(s, a + 1, b)

\* s[a:a+len(arr)] = arr
PyAssign(s, a, arr) ==
    [i \in 1..Len(s) |-> IF a < i /\ i <= a + Len(arr) THEN arr[i - a] ELSE s[i]]

\* AudioBuffer.__init__
AudioBuffer(max_samples) ==
    [provider |-> "", max_samples |-> max_samples,
     buffer |-> [i \in 1..max_samples |-> 0],
     write_pos |-> 0, is_full |-> FALSE, written |-> <<>>]

\* an add_chunk that leaves write_pos at the end of the buffer
AddChunkWithoutReset(b, chunk) ==
    LET audio_array == IF Len(chunk) > b.max_samples
                       THEN PySlice(chunk, Len(chunk) - b.max_samples, Len(chunk))
                       ELSE chunk
    IN  [b EXCEPT !.buffer = PyAssign(@, b.write_pos, audio_array),
                  !.write_pos = Minimum(b.write_pos + Len(audio_array), b.max_samples),
                  !.is_full = @ \/ b.write_pos + Len(audio_array) >= b.max_samples]

\* AudioBuffer.add_chunk on the fields of the object
AddChunk(b, chunk) ==
    LET audio_array == IF Len(chunk) > b.max_samples
                       THEN PySlice(chunk, Len(chunk) - b.max_samples, Len(chunk))
                       ELSE chunk
        chunk_size == Len(audio_array)
        first_part_size == b.max_samples - b.write_pos
        second_part_size == chunk_size - first_part_size
        wrapped == b.write_pos + chunk_size > b.max_samples
        buffer == IF wrapped
                  THEN PyAssign(PyAssign(b.buffer, b.write_pos,
                                         PySlice(audio_array, 0, first_part_size)),
                                0, PySlice(audio_array, first_part_size, chunk_size))
                  ELSE PyAssign(b.buffer, b.write_pos, audio_array)
        write_pos == IF wrapped THEN second_part_size ELSE b.write_pos + chunk_size
    IN  IF write_pos >= b.max_samples
        THEN [b EXCEPT !.buffer = buffer, !.write_pos = 0, !.is_full = TRUE]
        ELSE [b EXCEPT !.buffer = buffer, !.write_pos = write_pos]

\* AudioBuffer.get_audio_data
GetAudioData(b, duration) ==
    IF duration = <<>>
    THEN IF b.is_full
         THEN PySlice(b.buffer, b.write_pos, b.max_samples)
                 \o PySlice(b.buffer, 0, b.write_pos)
         ELSE PySlice(b.buffer, 0, b.write_pos)
    ELSE LET samples == Minimum(duration[1], b.max_samples)
         IN  IF b.is_full
             THEN LET start_pos == (b.write_pos - samples) % b.max_samples
                  IN  IF start_pos + samples <= b.max_samples
                      THEN PySlice(b.buffer, start_pos, start_pos + samples)
                      ELSE PySlice(b.buffer, start_pos, b.max_samples)
                              \o PySlice(b.buffer, 0,
                                         samples - (b.max_samples - start_pos))
             ELSE PySlice(b.buffer, Maximum(0, b.write_pos - samples), b.write_pos)

\* the durations asked for: None, or 0 .. max_samples + 1 samples
Durations(b) == {<<>>} \cup {<<n>> : n \in 0..(b.max_samples + 1)}

\* a chunk of chunk_size samples is added
add_chunk ==
    /\ inv[Http].cap = "audio_buffer"
    /\ \E chunk_size \in 0..MaxChunkSamples :
          LET b == inv[Http].req
              chunk == [i \in 1..chunk_size |-> Len(b.written) + i]
          IN  /\ Len(b.written) + chunk_size <= MaxWritten
              /\ inv' = [inv EXCEPT ![Http].status = "added",
                                     ![Http].req =
                                         [AddChunk(b, chunk) EXCEPT
                                             !.written = b.written \o chunk],
                                     ![Http].resp = NoResp]
    /\ UNCHANGED <<providers, settings, websocketVars>>

\* get_audio_data is called; inv[Http].resp holds its argument and result
get_audio_data ==
    /\ inv[Http].cap = "audio_buffer"
    /\ \E duration \in Durations(inv[Http].req) :
          inv' = [inv EXCEPT ![Http].status = "got",
                             ![Http].resp =
                                 [provider |-> "", duration |-> duration,
                                  data |-> GetAudioData(inv[Http].req, duration)]]
    /\ UNCHANGED <<providers, settings, websocketVars>>

BufferInit ==
    /\ providers = InitializeProviders(NoKeys)
    /\ settings = DefaultSettings
    /\ \E max_samples \in 1..MaxBufferSamples :
          inv = [t \in Tasks |->
                    IF t = Http
                    THEN [IdleInv EXCEPT !.cap = "audio_buffer", !.status = "new",
                                         !.req = AudioBuffer(max_samples)]
                    ELSE IdleInv]
    /\ NoConnections

BufferNext == add_chunk \/ get_audio_data

BufferSpec == BufferInit /\ [][BufferNext]_vars

-----------------------------------------------------------------------------
(* Properties of AudioBuffer, stated over the object in inv[Http] *)

IsBuffer == inv[Http].cap = "audio_buffer"

\* the last n samples written, oldest first
MostRecent(written, n) == SubSeq(written, Len(written) - n + 1, Len(written))

\* C38: once the total number of samples written is at least max_samples,
\* is_full is true and get_audio_data() returns exactly the most recent
\* max_samples samples, oldest first.
C38_FullBufferReturnsMostRecent ==
    IsBuffer =>
        LET b == inv[Http].req
        IN  Len(b.written) >= b.max_samples =>
               /\ b.is_full
               /\ (inv[Http].status = "got" /\ inv[Http].resp.duration = <<>>)
                  => inv[Http].resp.data = MostRecent(b.written, b.max_samples)

\* C39 (state): write_pos is a position of the buffer.
C39_WritePosInRange ==
    IsBuffer =>
        /\ 0 <= inv[Http].req.write_pos
        /\ inv[Http].req.write_pos < inv[Http].req.max_samples

\* C39 (step): no call turns is_full from true to false.
C39_FullStaysFull ==
    (IsBuffer /\ inv[Http].req.is_full) => inv'[Http].req.is_full

\* C39: after any sequence of add_chunk calls, 0 <= write_pos < max_samples,
\* and is_full never goes from true back to false.
C39_WritePosInRangeAndFullSticky ==
    []C39_WritePosInRange /\ [][C39_FullStaysFull]_vars

\* a full buffer of 4 samples was written past its end: the chunk that
\* filled it exactly was followed by one that left write_pos at 3
C39_Witness ==
    /\ IsBuffer
    /\ inv[Http].status = "added"
    /\ inv[Http].req.max_samples = 4
    /\ inv[Http].req.is_full
    /\ inv[Http].req.write_pos = 3
    /\ Len(inv[Http].req.written) = 7
    /\ inv[Http].req.buffer = <<5, 6, 7, 4>>

\* C40: get_audio_data(duration) returns the most recent
\* min(duration * sample_rate, samples available) samples, oldest first,
\* where the samples available are min(total samples written, max_samples).
C40_DurationReturnsMostRecent ==
    (IsBuffer /\ inv[Http].status = "got" /\ inv[Http].resp.duration # <<>>) =>
        LET b == inv[Http].req
            available == Minimum(Len(b.written), b.max_samples)
        IN  inv[Http].resp.data
               = MostRecent(b.written, Minimum(inv[Http].resp.duration[1], available))

====
